---- MODULE Spec2Model ----
(***************************************************************************)
(* Model of the toggle runtime of streamdeck-nix:                          *)
(*   - ToggleStateManager (src/src/toggle_state.rs): a map from button     *)
(*     name to ToggleState behind an RwLock;                               *)
(*   - execute_probe_command (src/src/probe.rs);                           *)
(*   - execute_toggle_command (src/src/toggle_command.rs).                 *)
(* Every task is one caller: in Spec it presses toggle buttons             *)
(* (execute_toggle_command), in SpecToggle it calls the store's            *)
(* toggle_state, in SpecStore any method of the store, in SpecThreads it   *)
(* is a thread running set_state, toggle_state and get_state on one name.  *)
(* SpecProbe is one call of execute_probe_command or of                    *)
(* execute_probe_command_with_config and the life of its child process.    *)
(* A store call is two steps, the acquisition of the lock                  *)
(* together with the map operation, and the drop of the guard; every       *)
(* external process is two steps, its spawn and its exit.                  *)
(* SpecRunner is one call of execute_command_with_output with the child's  *)
(* writes into its two pipes and the two tasks that drain them; SpecPress  *)
(* is the click handler of a Command button and the task it spawns.        *)
(* SpecGrid renders one menu with create_view_from_menu                    *)
(* (src/src/button.rs); SpecNav walks the menu tree of the configuration   *)
(* by pressing the cells of the view on display.                           *)
(* SpecIcons declares one button, writes the store and computes the label *)
(* and icon of the button (src/src/toggle_icons.rs, src/src/icons.rs).     *)
(* SpecLive is Spec with one button per task and weak fairness of every    *)
(* press; SpecRunnerLive is SpecRunner with weak fairness of its tasks.    *)
(***************************************************************************)
EXTENDS Integers, Sequences, FiniteSets, TLC

(* ---------------------------- bounds ----------------------------------- *)
MaxPresses == 2
MaxExitCode == 1
MaxToggles == 3
MaxOps == 3
MaxRunToggles == 2
MaxLen == 2
MaxWrites == 3
PipeCap == 1
MaxCmdPresses == 2
MaxButtons == 16
MaxSpecial == 2
MaxNavPresses == 5

\* the callers that may overlap
Tasks == {1, 2}
\* the Toggle buttons of the configuration, one per mode and probe setting
Names == {"single", "single_probe", "separate", "separate_probe"}

(* ---------------------------- values ----------------------------------- *)
On == "On"
Off == "Off"
Unknown == "Unknown"
ToggleState == {On, Off, Unknown}

\* Option<i32>: None is the empty tuple, Some(c) the one-element tuple
None == <<>>
Some(c) == <<c>>
\* a local that has not been assigned yet
Unset == <<0, 0>>
\* Option<&str>, and "no process", "no name"
NoneStr == "none"
NoCommand == <<>>
NoTask == 0

VARIABLES
  states,          \* ToggleStateManager.states: the HashMap, a function on the names written
  lockW,           \* the task holding the RwLock's write guard, or NoTask
  lockR,           \* the tasks holding a read guard of the RwLock
  pc,              \* each task's position in the code
  button_name,     \* execute_toggle_command / toggle_state argument
  mode,            \* execute_toggle_command argument: "Single" or "Separate"
  probe_command,   \* execute_toggle_command argument: None or "probe_cmd"
  probe_result,    \* local of step 1: the ProbeResult
  current_state,   \* local current_state
  command,         \* locals (command, args) chosen by the match on (mode, current_state)
  expected_new_state, \* local expected_new_state
  exit_code,       \* exit_code returned by execute_command_with_output
  verify_probe,    \* local verify_probe
  result,          \* the ToggleCommandResult returned
  proc,            \* the external process the task started and is awaiting
  pre,             \* history: the button's map entry when the press began
  touched,         \* history: another task wrote the button's entry since the press began
  nAction,         \* history: action commands this press tried to start
  nProbe,          \* history: probe commands this press tried to start
  nWrites,         \* history: store writes of this press
  presses,         \* history: presses started so far
  action_status,   \* history: status.code() of the action's child, None after a signal
  action_out,      \* locals (stdout, stderr) returned by execute_command_with_output
  runner,          \* history: how execute_command_with_output ended
  init0,           \* history (SpecToggle): value a name was set to before its toggles
  nToggles,        \* history (SpecToggle): toggle_state calls made on a name
  op,              \* the ToggleStateManager method a task is in (SpecStore, SpecThreads)
  arg_state,       \* set_state argument state
  probe_success,   \* update_from_probe argument probe_success
  previous,        \* set_state local previous: what states.insert returned
  ret,             \* the ToggleState a get_state / toggle_state call returned
  count_ret,       \* the usize a button_count call returned
  written,         \* history: the names written since the last clear_all
  everWritten,     \* history: the names ever written
  lastval,         \* history: the value last written to a name since the last clear_all
  ops,             \* history: store calls made so far
  script,          \* SpecThreads: the calls a thread makes, set_state, toggle_state.., get_state
  rets,            \* SpecThreads history: what the thread's toggle_state calls returned
  main_count,      \* SpecThreads: button_count() of the main thread after the joins
  probe_pc,        \* SpecProbe: the position of the caller of a probe function
  probe_fn,        \* execute_probe_command ("run") or .._with_config ("run_with_config")
  config,          \* the ProbeConfig argument
  child,           \* the child process: none, running, exited, spawn_failed
  status,          \* output.status.code() of the exited child
  stdout,          \* output.stdout of the exited child, a sequence of characters
  stderr,          \* output.stderr of the exited child
  spawn_error,     \* the io::Error e of a failed spawn
  probe_out,       \* the ProbeResult returned
  nResults,        \* history: results returned by the call
  nSpawns,         \* history: processes the call spawned
  arm,             \* history: the match arm that built the result
  childAtReturn,   \* history: the state of the child when the call returned
  run_pc,          \* SpecRunner: the position of execute_command_with_output
  cmd_child,       \* the child of cmd.spawn(): none, running, exited, spawn_failed
  pending,         \* the write the child is in: <<stream, line>>, or NoWrite
  pipe,            \* the lines in the stdout and stderr pipes
  reader_open,     \* the read end of each pipe is open (its BufReader is alive)
  drain_done,      \* stdout_task / stderr_task has finished
  output,          \* local output of each drain task
  wrote,           \* history: the lines the child wrote to each pipe
  run_status,      \* status.code() of the child
  run_result,      \* what execute_command_with_output returned
  displayed,       \* SpecNav: the CommanderPlugin shown, [menu, parent]
  path,            \* history (SpecNav): the Menu buttons descended from the root
  nav_log,         \* history (SpecNav): the node before the last descend, the last press
  menu,            \* SpecGrid: self.menu.buttons, the declared buttons
  has_parent,      \* SpecGrid: self.parent.is_some()
  view,            \* SpecGrid: what create_view_from_menu returned
  handler,         \* SpecPress: what the click handler of each press returned
  job,             \* SpecPress: the task each press spawned and its command
  log,             \* SpecPress: the error! / warn! / info! lines of the tasks
  shown            \* SpecIcons: the label and icon computed for the declared button

storeVars == <<states, lockW, lockR>>
pressVars == <<mode, probe_command, probe_result, command, expected_new_state,
               exit_code, verify_probe, result, proc, pre, nAction, nProbe,
               nWrites, presses, action_status, action_out, runner>>
toggleVars == <<init0, nToggles>>
apiVars == <<op, arg_state, probe_success, previous, ret, count_ret, written,
             everWritten, lastval, ops, script, rets, main_count>>
probeVars == <<probe_pc, probe_fn, config, child, status, stdout, stderr, spawn_error,
               probe_out, nResults, nSpawns, arm, childAtReturn>>
runVars == <<run_pc, cmd_child, pending, pipe, reader_open, drain_done, output, wrote,
             run_status, run_result>>
uiVars == <<displayed, path, nav_log, menu, has_parent, view, handler, job, log, shown>>
vars == <<states, lockW, lockR, pc, button_name, mode, probe_command, probe_result,
          current_state, command, expected_new_state, exit_code, verify_probe,
          result, proc, pre, touched, nAction, nProbe, nWrites, presses,
          action_status, action_out, runner,
          init0, nToggles, op, arg_state, probe_success, previous, ret, count_ret,
          written, everWritten, lastval, ops, script, rets, main_count,
          probe_pc, probe_fn, config, child, status, stdout, stderr, spawn_error,
          probe_out, nResults, nSpawns, arm, childAtReturn,
          run_pc, cmd_child, pending, pipe, reader_open, drain_done, output, wrote,
          run_status, run_result,
          displayed, path, nav_log, menu, has_parent, view, handler, job, log, shown>>

\* the names the direct callers of toggle_state use
ToggleNames == {"single", "separate"}

\* Button::Toggle of the loaded configuration: the mode and probe_command of a name
Config(name) ==
  [mode |-> IF name \in {"single", "single_probe"} THEN "Single" ELSE "Separate",
   probe_command |-> IF name \in {"single_probe", "separate_probe"}
                     THEN "probe_cmd" ELSE NoneStr]

\* a thread that has not been started, and a count that has not been taken
NoScript == [v |-> NoneStr, k |-> 0]
NoCount == -1

(* ------------------------- ToggleState --------------------------------- *)
\* mutant: an unknown state toggles to On
toggle_unknownOn(s) ==
  CASE s = On -> Off
    [] s = Off -> On
    [] OTHER -> On

\* ToggleState::toggle
toggle(s) ==
  CASE s = On -> Off
    [] s = Off -> On
    [] OTHER -> Unknown

(* ---------------------- ToggleStateManager ----------------------------- *)
\* mutant: an absent entry reads as Off
Lookup_defaultOff(m, name) == IF name \in DOMAIN m THEN m[name] ELSE Off
\* states.get(button_name).copied().unwrap_or(ToggleState::Unknown)
Lookup(m, name) == IF name \in DOMAIN m THEN m[name] ELSE Unknown

\* mutant: an insert evicts the other entries
Insert_evict(m, name, s) == [n \in {name} |-> s]

\* states.insert(button_name.to_string(), state)
Insert(m, name, s) == [n \in (DOMAIN m) \cup {name} |-> IF n = name THEN s ELSE m[n]]

\* the map entry itself: absent is told apart from a stored Unknown
Entry(m, name) == IF name \in DOMAIN m THEN m[name] ELSE "absent"

EmptyMap == [n \in {} |-> Unknown]

\* self.states.read() succeeds when no writer holds the lock
CanRead == lockW = NoTask
\* self.states.write() succeeds when nobody holds the lock
CanWrite == lockW = NoTask /\ lockR = {}

\* mutant: the read guard is kept alive after get_state returns
DropReadGuard_keep(R, t) == R
\* the read guard goes out of scope at the end of get_state's Ok arm
DropReadGuard(R, t) == R \ {t}
\* mutant: the write guard is kept alive after set_state returns
DropWriteGuard_keep(w, t) == w
\* the write guard goes out of scope at the end of set_state's Ok arm
DropWriteGuard(w, t) == NoTask

\* history: the writers other than t that hit the entry of a press in progress
Touch(t, name) ==
  [u \in Tasks |-> IF u # t /\ pc[u] # "idle" /\ button_name[u] = name
                   THEN TRUE ELSE touched[u]]

\* set_state up to and including the insert; the write guard is held afterwards
set_state_locked(t, name, s) ==
  /\ CanWrite
  /\ lockW' = t
  /\ lockR' = lockR
  /\ states' = Insert(states, name, s)
  /\ touched' = Touch(t, name)

\* the end of set_state
set_state_unlock(t) ==
  /\ lockW = t
  /\ lockW' = DropWriteGuard(lockW, t)
  /\ UNCHANGED <<lockR, states, touched>>

\* get_state up to and including the map read; the read guard is held afterwards
get_state_locked(t, name) ==
  /\ CanRead
  /\ lockR' = lockR \cup {t}
  /\ current_state' = [current_state EXCEPT ![t] = Lookup(states, name)]
  /\ UNCHANGED <<lockW, states, touched>>

\* the end of get_state
get_state_unlock(t) ==
  /\ t \in lockR
  /\ lockR' = DropReadGuard(lockR, t)
  /\ UNCHANGED <<lockW, states, touched>>

(* --------------------------- ProbeResult ------------------------------- *)
ProbeResult_success(code) == [success |-> TRUE, exit_code |-> Some(code)]
ProbeResult_failure(code) == [success |-> FALSE, exit_code |-> code]
ProbeResult_execution_error == [success |-> FALSE, exit_code |-> None]
NoProbeResult == [success |-> FALSE, exit_code |-> Unset]

is_success(r) == r.success /\ r.exit_code = Some(0)
is_command_failure(r) == ~r.success /\ r.exit_code # None
is_execution_error(r) == ~r.success /\ r.exit_code = None

\* the exit statuses of a child: status.code() is Some(c), or None after a signal
ExitStatuses == {Some(c) : c \in 0..MaxExitCode} \cup {None}
status_success(st) == st = Some(0)
unwrap_or(opt, d) == IF opt = None THEN d ELSE opt[1]

\* mutant: the exit code of a failed command is dropped
ProbeOutput_codeLost(st) ==
  IF status_success(st) THEN ProbeResult_success(unwrap_or(st, 0))
  ELSE ProbeResult_failure(None)
\* execute_probe_command, the Ok(output) arm
ProbeOutput(st) ==
  IF status_success(st) THEN ProbeResult_success(unwrap_or(st, 0))
  ELSE ProbeResult_failure(st)

(* ------------------- probes: output and ProbeConfig --------------------- *)
\* the strings a probe may print, as sequences of the characters a, b, space
RECURSIVE SeqsUpTo(_)
SeqsUpTo(n) ==
  IF n = 0 THEN {<<>>}
  ELSE LET shorter == SeqsUpTo(n - 1)
       IN shorter \cup {Append(q, c) : q \in {r \in shorter : Len(r) = n - 1}, c \in {"a", "b", " "}}

\* the indicator strings a ProbeConfig may list, the empty string among them
IndicatorPool == {<<>>, <<"a">>, <<"b">>, <<"a", "b">>}
DefaultTimeoutMs == 5000
ShortTimeoutMs == 100
Configs ==
  [timeout_ms : {DefaultTimeoutMs, ShortTimeoutMs},
   empty_stdout_is_success : BOOLEAN,
   success_indicators : SUBSET IndicatorPool,
   failure_indicators : SUBSET IndicatorPool]
\* execute_probe_command takes no ProbeConfig
NoConfig == [timeout_ms |-> DefaultTimeoutMs, empty_stdout_is_success |-> TRUE,
             success_indicators |-> {}, failure_indicators |-> {}]

\* str::contains: the indicator is a contiguous part of the string
Contains(s, ind) ==
  \E i \in 0..(Len(s) - Len(ind)) : SubSeq(s, i + 1, i + Len(ind)) = ind

\* str::trim: leading and trailing whitespace removed
IsWhitespace(c) == c = " "
RECURSIVE TrimStart(_)
TrimStart(s) ==
  IF s = <<>> THEN s
  ELSE IF IsWhitespace(Head(s)) THEN TrimStart(Tail(s)) ELSE s
RECURSIVE TrimEnd(_)
TrimEnd(s) ==
  IF s = <<>> THEN s
  ELSE IF IsWhitespace(s[Len(s)]) THEN TrimEnd(SubSeq(s, 1, Len(s) - 1)) ELSE s
Trim(s) == TrimEnd(TrimStart(s))

\* mutant: the success indicators are looked at first
evaluate_custom_indicators_successFirst(out, cfg) ==
  IF \E i \in cfg.success_indicators : Contains(out, i) THEN Some(TRUE)
  ELSE IF \E i \in cfg.failure_indicators : Contains(out, i) THEN Some(FALSE)
  ELSE IF Trim(out) = <<>> THEN Some(cfg.empty_stdout_is_success)
  ELSE None

\* evaluate_custom_indicators: Option<bool>
evaluate_custom_indicators(out, cfg) ==
  IF \E i \in cfg.failure_indicators : Contains(out, i) THEN Some(FALSE)
  ELSE IF \E i \in cfg.success_indicators : Contains(out, i) THEN Some(TRUE)
  ELSE IF Trim(out) = <<>> THEN Some(cfg.empty_stdout_is_success)
  ELSE None

\* match custom_success { Some(success) => success, None => exit_success }
final_success(custom_success, exit_success) ==
  IF custom_success = None THEN exit_success ELSE custom_success[1]

\* execute_probe_command_with_config, the Ok(Ok(output)) arm
ConfigOutput(st, out, cfg) ==
  IF final_success(evaluate_custom_indicators(out, cfg), status_success(st))
  THEN ProbeResult_success(unwrap_or(st, 0))
  ELSE ProbeResult_failure(st)

\* the ProbeResult with its stdout and stderr
WithOutput(r, out, err) ==
  [success |-> r.success, exit_code |-> r.exit_code, stdout |-> out, stderr |-> err]

\* ProbeResult::execution_error(error_message): stdout is String::new()
ExecutionError(error_message) == WithOutput(ProbeResult_execution_error, <<>>, error_message)

\* mutant: the message names the default duration
TimeoutMessage_default(cfg) ==
  "Command timed out after " \o ToString(DefaultTimeoutMs) \o "ms"
\* format!("Command timed out after {}ms", config.timeout_ms)
TimeoutMessage(cfg) == "Command timed out after " \o ToString(cfg.timeout_ms) \o "ms"

(* ------------- execute_command_with_output: pipes and tasks ------------- *)
\* the two pipes of the child, Stdio::piped()
Streams == {"out", "err"}
\* a line of valid UTF-8, and a line that is not valid UTF-8: next_line() gives
\* Ok(Some(line)) for the first and Err for the second
BadLine == "not-utf8"
NoWrite == <<>>
Newline == "\n"

\* mutant: the stderr task only runs once the stdout task has finished
DrainRuns_sequential(p) == p = "out" \/ drain_done["out"]
\* tokio::spawn: each drain task runs on its own
DrainRuns(p) == TRUE

\* Err(Box::new(e))
RunErr(e) == [ok |-> FALSE, exit_code |-> None, stdout |-> <<>>, stderr |-> <<>>,
              err |-> e]

(* ---------------- CommanderPlugin: menus, nodes and views --------------- *)
\* the U5 x U3 grid, and the cell the code keeps for the automatic Back
Cols == 5
Rows == 3
ReservedIndex == 14
BackCol == 4
BackRow == 2

\* config::Button, the three kinds create_view_from_menu has an arm for
CommandButton(n) == [kind |-> "Command", name |-> n, buttons |-> <<>>]
MenuButton(n, bs) == [kind |-> "Menu", name |-> n, buttons |-> bs]
BackButton(n) == [kind |-> "Back", name |-> n, buttons |-> <<>>]
\* config::Menu
Menu(n, bs) == [name |-> n, buttons |-> bs]

\* CommanderPlugin::new
new(m) == [menu |-> m, parent |-> None]
\* mutant: the node keeps its parent's menu but not the parent's own parent
new_with_parent_shallow(m, p) == [menu |-> m, parent |-> Some(new(p.menu))]
\* CommanderPlugin::new_with_parent: the parent is boxed by value, chain included
new_with_parent(m, p) == [menu |-> m, parent |-> Some(p)]

\* the menu tree of the configuration that SpecNav walks
ConfigMenu ==
  Menu("main",
       <<CommandButton("c0"),
         MenuButton("sub", <<CommandButton("c1"), BackButton("Back"),
                             MenuButton("deep", <<CommandButton("c2")>>)>>),
         MenuButton("other", <<CommandButton("c3")>>)>>)
\* main.rs: CommanderPlugin::new(config.menu.clone())
RootNode == new(ConfigMenu)

\* CustomizableView: the cells set so far, by (col, row); ok is FALSE once a
\* set_button / set_navigation outside the grid has returned Err; sets is
\* history, the number of cells set by the calls that returned Ok
NewView == [rendered |-> TRUE, ok |-> TRUE, cells |-> [c \in {} |-> NoneStr], sets |-> 0]
NoView == [rendered |-> FALSE, ok |-> FALSE, cells |-> [c \in {} |-> NoneStr], sets |-> 0]
SetCell(v, col, row, c) ==
  IF col < Cols /\ row < Rows
  THEN [v EXCEPT !.cells = (<<col, row>> :> c) @@ v.cells, !.sets = @ + 1]
  ELSE [v EXCEPT !.ok = FALSE]
\* mutant: the navigation is handed the menu alone, without the parent chain
NavCell_parentless(i, n, node) ==
  [kind |-> "nav", decl |-> i, name |-> n, target |-> Some(new(node.menu))]
\* PluginNavigation::new(plugin) in a cell: the plugin is moved in whole
NavCell(i, n, node) == [kind |-> "nav", decl |-> i, name |-> n, target |-> Some(node)]

\* mutant: no position is kept free
AtReserved_never(button_index) == FALSE
\* if button_index == 14
AtReserved(button_index) == button_index = ReservedIndex

\* mutant: the loop goes on below the last row
PastGrid_never(row) == FALSE
\* if row >= 3 { break; }
PastGrid(row) == row >= Rows

\* the for loop over self.menu.buttons, from its i-th button on; every arm
\* ends with col += 1; if col >= 5 { col = 0; row += 1; }
RECURSIVE LayoutLoop(_, _, _, _, _, _)
LayoutLoop(self, i, row, col, button_index, v) ==
  IF i > Len(self.menu.buttons) \/ ~v.ok THEN v
  ELSE LET b == self.menu.buttons[i]
           skip == AtReserved(button_index)
           bi == IF skip THEN button_index + 1 ELSE button_index
           c == IF skip THEN 0 ELSE col
           r == IF skip THEN Rows ELSE row
       IN IF PastGrid(r) THEN v
          ELSE LayoutLoop(self, i + 1,
                 IF c + 1 >= Cols THEN r + 1 ELSE r,
                 IF c + 1 >= Cols THEN 0 ELSE c + 1,
                 bi + 1,
                 CASE b.kind = "Command" -> SetCell(v, c, r, [kind |-> "click", decl |-> i, name |-> b.name,
                                                target |-> None])
                   [] b.kind = "Menu" ->
                        SetCell(v, c, r,
                                NavCell(i, b.name,
                                        new_with_parent(Menu(b.name, b.buttons), self)))
                   [] OTHER -> v)

\* mutant: the automatic Back goes to the first cell
BackPosition_first == <<0, 0>>
\* set_navigation(4, 2, ..)
BackPosition == <<BackCol, BackRow>>

\* create_view_from_menu(&self): the loop, then
\* if let Some(parent) = &self.parent { view.set_navigation(4, 2, parent.clone(), "Back", ..) }
create_view_from_menu(self) ==
  LET v == LayoutLoop(self, 1, 0, 0, 0, NewView)
  IN IF self.parent # None /\ v.ok
     THEN SetCell(v, BackPosition[1], BackPosition[2], NavCell(0, "Back", self.parent[1]))
     ELSE v

Special(bs) == Cardinality({i \in 1..Len(bs) : bs[i].kind # "Command"})
\* the node whose view SpecGrid renders
WideNode == IF has_parent
            THEN new_with_parent(Menu("wide", menu), new(Menu("main", <<>>)))
            ELSE new(Menu("wide", menu))


(* ----------------------- execute_toggle_command ------------------------ *)
\* mutant: every probe that is not a success counts as Off
ProbedState_errorIsOff(r) == IF is_success(r) THEN On ELSE Off
\* step 1: the probed state
ProbedState(r) ==
  IF is_success(r) THEN On
  ELSE IF is_command_failure(r) THEN Off
  ELSE Unknown

\* mutant: Single mode computes its target with ToggleState::toggle
SelectAction_toggle(m, s) ==
  IF m = "Single"
  THEN [command |-> <<"command", "args">>, expected |-> toggle(s)]
  ELSE CASE s = On -> [command |-> <<"off_command", "off_args">>, expected |-> Off]
         [] s = Off -> [command |-> <<"on_command", "on_args">>, expected |-> On]
         [] OTHER -> [command |-> <<"on_command", "on_args">>, expected |-> On]

\* mutant: Separate mode treats Unknown like On
SelectAction_unknownOff(m, s) ==
  IF m = "Single"
  THEN [command |-> <<"command", "args">>,
        expected |-> CASE s = On -> Off
                       [] s = Off -> On
                       [] OTHER -> On]
  ELSE CASE s = Off -> [command |-> <<"on_command", "on_args">>, expected |-> On]
         [] OTHER -> [command |-> <<"off_command", "off_args">>, expected |-> Off]

\* the match on (mode, current_state)
SelectAction(m, s) ==
  IF m = "Single"
  THEN [command |-> <<"command", "args">>,
        expected |-> CASE s = On -> Off
                       [] s = Off -> On
                       [] OTHER -> On]
  ELSE CASE s = On -> [command |-> <<"off_command", "off_args">>, expected |-> Off]
         [] s = Off -> [command |-> <<"on_command", "on_args">>, expected |-> On]
         [] OTHER -> [command |-> <<"on_command", "on_args">>, expected |-> On]

\* mutant: only a negative exit code counts as a failure
ActionSucceeded_nonNegative(code) == code >= 0
\* if exit_code == 0
ActionSucceeded(code) == code = 0

\* mutant: the optimistic target is trusted whatever the probe says
VerifiedState_trustTarget(r, expected) == expected
\* mutant: the verification probe is mapped as the step-1 probe is
VerifiedState_asStep1(r, expected) ==
  IF is_success(r) THEN On
  ELSE IF is_command_failure(r) THEN Off
  ELSE Unknown
\* the verified state of the verification probe
VerifiedState(r, expected) ==
  IF is_success(r) THEN On
  ELSE IF is_command_failure(r) THEN Off
  ELSE expected

\* mutant: the runner's error is reported with output
EmptyOutput_some == <<"out", "err">>
\* (String::new(), String::new())
EmptyOutput == <<"", "">>
NoOutput == <<"unset", "unset">>

NoResult == [success |-> FALSE, new_state |-> "unset", exit_code |-> Unset,
             stdout |-> "unset", stderr |-> "unset", error_message |-> Unset]

\* mutant: a success always reports On
ToggleCommandResult_success_on(new_state, code, out) ==
  [success |-> TRUE, new_state |-> On, exit_code |-> Some(code),
   stdout |-> out[1], stderr |-> out[2], error_message |-> None]
\* ToggleCommandResult::success(new_state, exit_code, stdout, stderr)
ToggleCommandResult_success(new_state, code, out) ==
  [success |-> TRUE, new_state |-> new_state, exit_code |-> Some(code),
   stdout |-> out[1], stderr |-> out[2], error_message |-> None]

\* mutant: the failure result carries no message
ToggleCommandResult_failure_noMessage(cur, code, out, msg) ==
  [success |-> FALSE, new_state |-> cur, exit_code |-> code,
   stdout |-> out[1], stderr |-> out[2], error_message |-> None]

ToggleCommandResult_failure(cur, code, out, msg) ==
  [success |-> FALSE, new_state |-> cur, exit_code |-> code,
   stdout |-> out[1], stderr |-> out[2], error_message |-> Some(msg)]

\* mutant: a child ended by a signal is reported as exit code 0
RunnerExitCode_zero(st) == unwrap_or(st, 0)
\* let exit_code = status.code().unwrap_or(-1)
RunnerExitCode(st) == unwrap_or(st, -1)

\* format!("Failed to execute toggle command: {}", e)
ExecErrorMessage(e) == <<"Failed to execute toggle command:", e>>

Init ==
  /\ states = EmptyMap
  /\ lockW = NoTask
  /\ lockR = {}
  /\ pc = [t \in Tasks |-> "idle"]
  /\ button_name = [t \in Tasks |-> NoneStr]
  /\ mode = [t \in Tasks |-> NoneStr]
  /\ probe_command = [t \in Tasks |-> NoneStr]
  /\ probe_result = [t \in Tasks |-> NoProbeResult]
  /\ current_state = [t \in Tasks |-> "unset"]
  /\ command = [t \in Tasks |-> NoCommand]
  /\ expected_new_state = [t \in Tasks |-> "unset"]
  /\ exit_code = [t \in Tasks |-> Unset]
  /\ verify_probe = [t \in Tasks |-> NoProbeResult]
  /\ result = [t \in Tasks |-> NoResult]
  /\ proc = [t \in Tasks |-> NoneStr]
  /\ pre = [t \in Tasks |-> "absent"]
  /\ touched = [t \in Tasks |-> FALSE]
  /\ nAction = [t \in Tasks |-> 0]
  /\ nProbe = [t \in Tasks |-> 0]
  /\ nWrites = [t \in Tasks |-> 0]
  /\ presses = 0
  /\ action_status = [t \in Tasks |-> Unset]
  /\ action_out = [t \in Tasks |-> NoOutput]
  /\ runner = [t \in Tasks |-> NoneStr]
  /\ init0 = [n \in Names |-> NoneStr]
  /\ nToggles = [n \in Names |-> 0]
  /\ op = [t \in Tasks |-> NoneStr]
  /\ arg_state = [t \in Tasks |-> "unset"]
  /\ probe_success = [t \in Tasks |-> FALSE]
  /\ previous = [t \in Tasks |-> "unset"]
  /\ ret = [t \in Tasks |-> "unset"]
  /\ count_ret = [t \in Tasks |-> 0]
  /\ written = {}
  /\ everWritten = {}
  /\ lastval = [n \in Names |-> NoneStr]
  /\ ops = 0
  /\ script = [t \in Tasks |-> NoScript]
  /\ rets = [t \in Tasks |-> <<>>]
  /\ main_count = NoCount
  /\ probe_pc = "idle"
  /\ probe_fn = NoneStr
  /\ config = NoConfig
  /\ child = "none"
  /\ status = Unset
  /\ stdout = <<>>
  /\ stderr = ""
  /\ spawn_error = NoneStr
  /\ probe_out = WithOutput(NoProbeResult, <<>>, "")
  /\ nResults = 0
  /\ nSpawns = 0
  /\ arm = NoneStr
  /\ childAtReturn = NoneStr
  /\ run_pc = "idle"
  /\ cmd_child = "none"
  /\ pending = NoWrite
  /\ pipe = [p \in Streams |-> <<>>]
  /\ reader_open = [p \in Streams |-> FALSE]
  /\ drain_done = [p \in Streams |-> FALSE]
  /\ output = [p \in Streams |-> <<>>]
  /\ wrote = [p \in Streams |-> <<>>]
  /\ run_status = Unset
  /\ run_result = [ok |-> FALSE, exit_code |-> Unset, stdout |-> <<>>, stderr |-> <<>>,
                   err |-> NoneStr]
  /\ displayed = RootNode
  /\ path = <<>>
  /\ nav_log = [stack |-> <<>>, trace |-> <<>>]
  /\ menu = <<>>
  /\ has_parent = FALSE
  /\ view = NoView
  /\ handler = <<>>
  /\ job = <<>>
  /\ log = {}
  /\ shown = [rendered |-> FALSE, label |-> NoneStr, icon |-> None]

\* a press of a Toggle button arrives:
\* execute_toggle_command(button_name, mode, probe_command, ..)
StartPress(t) ==
  /\ pc[t] \in {"idle", "done"}
  /\ presses < MaxPresses
  /\ \E b \in Names :
       /\ button_name' = [button_name EXCEPT ![t] = b]
       /\ mode' = [mode EXCEPT ![t] = Config(b).mode]
       /\ probe_command' = [probe_command EXCEPT ![t] = Config(b).probe_command]
       /\ pre' = [pre EXCEPT ![t] = Entry(states, b)]
       /\ pc' = [pc EXCEPT ![t] = IF Config(b).probe_command # NoneStr
                                  THEN "probe1" ELSE "get1"]
  /\ presses' = presses + 1
  /\ probe_result' = [probe_result EXCEPT ![t] = NoProbeResult]
  /\ current_state' = [current_state EXCEPT ![t] = "unset"]
  /\ command' = [command EXCEPT ![t] = NoCommand]
  /\ expected_new_state' = [expected_new_state EXCEPT ![t] = "unset"]
  /\ exit_code' = [exit_code EXCEPT ![t] = Unset]
  /\ verify_probe' = [verify_probe EXCEPT ![t] = NoProbeResult]
  /\ result' = [result EXCEPT ![t] = NoResult]
  /\ touched' = [touched EXCEPT ![t] = FALSE]
  /\ nAction' = [nAction EXCEPT ![t] = 0]
  /\ nProbe' = [nProbe EXCEPT ![t] = 0]
  /\ nWrites' = [nWrites EXCEPT ![t] = 0]
  /\ action_status' = [action_status EXCEPT ![t] = Unset]
  /\ action_out' = [action_out EXCEPT ![t] = NoOutput]
  /\ runner' = [runner EXCEPT ![t] = NoneStr]
  /\ UNCHANGED <<runVars, uiVars, probeVars, storeVars, proc, toggleVars, apiVars>>

\* step 1, execute_probe_command: cmd.output() starts the probe, or fails to
Probe1Spawn(t) ==
  /\ pc[t] = "probe1"
  /\ nProbe' = [nProbe EXCEPT ![t] = @ + 1]
  /\ \/ /\ proc' = [proc EXCEPT ![t] = "probe"]
        /\ pc' = [pc EXCEPT ![t] = "probe1_wait"]
        /\ UNCHANGED probe_result
     \/ /\ probe_result' = [probe_result EXCEPT ![t] = ProbeResult_execution_error]
        /\ pc' = [pc EXCEPT ![t] = "set1"]
        /\ UNCHANGED proc
  /\ UNCHANGED <<runVars, uiVars, action_status, action_out, runner, probeVars, storeVars, button_name, mode, probe_command, current_state, command,
                 expected_new_state, exit_code, verify_probe, result, pre, touched,
                 nAction, nWrites, presses, toggleVars, apiVars>>

\* step 1, execute_probe_command: the probe exits
Probe1Exit(t) ==
  /\ pc[t] = "probe1_wait"
  /\ \E st \in ExitStatuses :
       probe_result' = [probe_result EXCEPT ![t] = ProbeOutput(st)]
  /\ proc' = [proc EXCEPT ![t] = NoneStr]
  /\ pc' = [pc EXCEPT ![t] = "set1"]
  /\ UNCHANGED <<runVars, uiVars, action_status, action_out, runner, probeVars, storeVars, button_name, mode, probe_command, current_state, command,
                 expected_new_state, exit_code, verify_probe, result, pre, touched,
                 nAction, nProbe, nWrites, presses, toggleVars, apiVars>>

\* step 1: state_manager.set_state(button_name, probed_state)
Step1Set(t) ==
  /\ pc[t] = "set1"
  /\ set_state_locked(t, button_name[t], ProbedState(probe_result[t]))
  /\ current_state' = [current_state EXCEPT ![t] = ProbedState(probe_result[t])]
  /\ nWrites' = [nWrites EXCEPT ![t] = @ + 1]
  /\ pc' = [pc EXCEPT ![t] = "set1_held"]
  /\ UNCHANGED <<runVars, uiVars, action_status, action_out, runner, probeVars, button_name, mode, probe_command, probe_result, command,
                 expected_new_state, exit_code, verify_probe, result, proc, pre,
                 nAction, nProbe, presses, toggleVars, apiVars>>

Step1SetDone(t) ==
  /\ pc[t] = "set1_held"
  /\ set_state_unlock(t)
  /\ pc' = [pc EXCEPT ![t] = "select"]
  /\ UNCHANGED <<runVars, uiVars, probeVars, button_name, current_state, pressVars, toggleVars, apiVars>>

\* step 1 without a probe: state_manager.get_state(button_name)
Step1Get(t) ==
  /\ pc[t] = "get1"
  /\ get_state_locked(t, button_name[t])
  /\ pc' = [pc EXCEPT ![t] = "get1_held"]
  /\ UNCHANGED <<runVars, uiVars, probeVars, button_name, pressVars, toggleVars, apiVars>>

Step1GetDone(t) ==
  /\ pc[t] = "get1_held"
  /\ get_state_unlock(t)
  /\ pc' = [pc EXCEPT ![t] = "select"]
  /\ UNCHANGED <<runVars, uiVars, probeVars, button_name, current_state, pressVars, toggleVars, apiVars>>

\* the match on (mode, current_state), then execute_command_with_output: cmd.spawn()
SpawnAction(t) ==
  /\ pc[t] = "select"
  /\ LET sel == SelectAction(mode[t], current_state[t]) IN
       /\ command' = [command EXCEPT ![t] = sel.command]
       /\ expected_new_state' = [expected_new_state EXCEPT ![t] = sel.expected]
  /\ nAction' = [nAction EXCEPT ![t] = @ + 1]
  /\ \/ /\ proc' = [proc EXCEPT ![t] = "action"]
        /\ pc' = [pc EXCEPT ![t] = "action_wait"]
        /\ runner' = [runner EXCEPT ![t] = "running"]
        /\ UNCHANGED <<result, exit_code>>
     \/ \* Err(e) of cmd.spawn()
        /\ result' = [result EXCEPT ![t] =
             ToggleCommandResult_failure(current_state[t], None, EmptyOutput,
                                         ExecErrorMessage("spawn"))]
        /\ exit_code' = [exit_code EXCEPT ![t] = None]
        /\ runner' = [runner EXCEPT ![t] = "spawn_failed"]
        /\ pc' = [pc EXCEPT ![t] = "done"]
        /\ UNCHANGED proc
  /\ UNCHANGED <<runVars, uiVars, action_status, action_out, probeVars, storeVars, button_name, mode, probe_command, probe_result, current_state,
                 verify_probe, pre, touched, nProbe, nWrites, presses, toggleVars, apiVars>>

\* child.wait() returns: Ok((exit_code, ..)) with status.code().unwrap_or(-1), or Err(e)
ActionExit(t) ==
  /\ pc[t] = "action_wait"
  /\ proc' = [proc EXCEPT ![t] = NoneStr]
  /\ \/ \E st \in ExitStatuses, out \in {<<"out", "err">>} :
          LET code == RunnerExitCode(st) IN
            /\ action_status' = [action_status EXCEPT ![t] = st]
            /\ action_out' = [action_out EXCEPT ![t] = out]
            /\ runner' = [runner EXCEPT ![t] = "exited"]
            /\ exit_code' = [exit_code EXCEPT ![t] = Some(code)]
            /\ IF ActionSucceeded(code)
               THEN /\ pc' = [pc EXCEPT ![t] = "set2"]
                    /\ UNCHANGED result
               ELSE /\ pc' = [pc EXCEPT ![t] = "done"]
                    /\ result' = [result EXCEPT ![t] =
                         ToggleCommandResult_failure(current_state[t], Some(code), out,
                           \* format!("Toggle command failed with exit code {}", exit_code)
                           <<"Toggle command failed with exit code", ToString(code)>>)]
     \/ \* Err(e) of child.wait()
        /\ exit_code' = [exit_code EXCEPT ![t] = None]
        /\ runner' = [runner EXCEPT ![t] = "wait_failed"]
        /\ result' = [result EXCEPT ![t] =
             ToggleCommandResult_failure(current_state[t], None, EmptyOutput,
                                         ExecErrorMessage("wait"))]
        /\ pc' = [pc EXCEPT ![t] = "done"]
        /\ UNCHANGED <<action_status, action_out>>
  /\ UNCHANGED <<runVars, uiVars, probeVars, storeVars, button_name, mode, probe_command, probe_result, current_state,
                 command, expected_new_state, verify_probe, pre, touched, nAction,
                 nProbe, nWrites, presses, toggleVars, apiVars>>

\* exit code 0: state_manager.set_state(button_name, expected_new_state)
TargetSet(t) ==
  /\ pc[t] = "set2"
  /\ set_state_locked(t, button_name[t], expected_new_state[t])
  /\ nWrites' = [nWrites EXCEPT ![t] = @ + 1]
  /\ pc' = [pc EXCEPT ![t] = "set2_held"]
  /\ UNCHANGED <<runVars, uiVars, action_status, action_out, runner, probeVars, button_name, mode, probe_command, probe_result, current_state, command,
                 expected_new_state, exit_code, verify_probe, result, proc, pre,
                 nAction, nProbe, presses, toggleVars, apiVars>>

\* end of that set_state; without a probe the press returns success
TargetSetDone(t) ==
  /\ pc[t] = "set2_held"
  /\ set_state_unlock(t)
  /\ IF probe_command[t] # NoneStr
     THEN /\ pc' = [pc EXCEPT ![t] = "probe2"]
          /\ UNCHANGED result
     ELSE /\ pc' = [pc EXCEPT ![t] = "done"]
          /\ result' = [result EXCEPT ![t] =
               ToggleCommandResult_success(expected_new_state[t], exit_code[t][1],
                                           action_out[t])]
  /\ UNCHANGED <<runVars, uiVars, action_status, action_out, runner, probeVars, button_name, mode, probe_command, probe_result, current_state, command,
                 expected_new_state, exit_code, verify_probe, proc, pre, nAction,
                 nProbe, nWrites, presses, toggleVars, apiVars>>

\* verification, execute_probe_command: cmd.output() starts the probe, or fails to
Probe2Spawn(t) ==
  /\ pc[t] = "probe2"
  /\ nProbe' = [nProbe EXCEPT ![t] = @ + 1]
  /\ \/ /\ proc' = [proc EXCEPT ![t] = "verify"]
        /\ pc' = [pc EXCEPT ![t] = "probe2_wait"]
        /\ UNCHANGED verify_probe
     \/ /\ verify_probe' = [verify_probe EXCEPT ![t] = ProbeResult_execution_error]
        /\ pc' = [pc EXCEPT ![t] = "set3"]
        /\ UNCHANGED proc
  /\ UNCHANGED <<runVars, uiVars, action_status, action_out, runner, probeVars, storeVars, button_name, mode, probe_command, probe_result, current_state,
                 command, expected_new_state, exit_code, result, pre, touched, nAction,
                 nWrites, presses, toggleVars, apiVars>>

\* verification, execute_probe_command: the probe exits
Probe2Exit(t) ==
  /\ pc[t] = "probe2_wait"
  /\ \E st \in ExitStatuses :
       verify_probe' = [verify_probe EXCEPT ![t] = ProbeOutput(st)]
  /\ proc' = [proc EXCEPT ![t] = NoneStr]
  /\ pc' = [pc EXCEPT ![t] = "set3"]
  /\ UNCHANGED <<runVars, uiVars, action_status, action_out, runner, probeVars, storeVars, button_name, mode, probe_command, probe_result, current_state,
                 command, expected_new_state, exit_code, result, pre, touched, nAction,
                 nProbe, nWrites, presses, toggleVars, apiVars>>

\* state_manager.set_state(button_name, verified_state)
VerifiedSet(t) ==
  /\ pc[t] = "set3"
  /\ set_state_locked(t, button_name[t],
                      VerifiedState(verify_probe[t], expected_new_state[t]))
  /\ nWrites' = [nWrites EXCEPT ![t] = @ + 1]
  /\ pc' = [pc EXCEPT ![t] = "set3_held"]
  /\ UNCHANGED <<runVars, uiVars, action_status, action_out, runner, probeVars, button_name, mode, probe_command, probe_result, current_state, command,
                 expected_new_state, exit_code, verify_probe, result, proc, pre,
                 nAction, nProbe, presses, toggleVars, apiVars>>

\* end of that set_state; ToggleCommandResult::success(final_state, exit_code, ..)
VerifiedSetDone(t) ==
  /\ pc[t] = "set3_held"
  /\ set_state_unlock(t)
  /\ result' = [result EXCEPT ![t] =
       ToggleCommandResult_success(VerifiedState(verify_probe[t], expected_new_state[t]),
                                   exit_code[t][1], action_out[t])]
  /\ pc' = [pc EXCEPT ![t] = "done"]
  /\ UNCHANGED <<runVars, uiVars, action_status, action_out, runner, probeVars, button_name, mode, probe_command, probe_result, current_state, command,
                 expected_new_state, exit_code, verify_probe, proc, pre, nAction,
                 nProbe, nWrites, presses, toggleVars, apiVars>>

Next ==
  \E t \in Tasks :
    \/ StartPress(t)
    \/ Probe1Spawn(t)
    \/ Probe1Exit(t)
    \/ Step1Set(t)
    \/ Step1SetDone(t)
    \/ Step1Get(t)
    \/ Step1GetDone(t)
    \/ SpawnAction(t)
    \/ ActionExit(t)
    \/ TargetSet(t)
    \/ TargetSetDone(t)
    \/ Probe2Spawn(t)
    \/ Probe2Exit(t)
    \/ VerifiedSet(t)
    \/ VerifiedSetDone(t)

Spec == Init /\ [][Next]_vars

\* a press of the button of task t: the tasks have one button each, one of
\* each mode, one without and one with a probe
LivePress(t) ==
  /\ StartPress(t)
  /\ button_name'[t] = IF t = 1 THEN "single" ELSE "separate_probe"

NextLive ==
  \E t \in Tasks :
    \/ LivePress(t)
    \/ Probe1Spawn(t)
    \/ Probe1Exit(t)
    \/ Step1Set(t)
    \/ Step1SetDone(t)
    \/ Step1Get(t)
    \/ Step1GetDone(t)
    \/ SpawnAction(t)
    \/ ActionExit(t)
    \/ TargetSet(t)
    \/ TargetSetDone(t)
    \/ Probe2Spawn(t)
    \/ Probe2Exit(t)
    \/ VerifiedSet(t)
    \/ VerifiedSetDone(t)

\* the runtime polls every press that can go on, a store call that finds the
\* lock free gets it, and every process started exits
SpecLive ==
  /\ Init /\ [][NextLive]_vars
  /\ \A t \in Tasks :
       WF_vars(\/ Probe1Spawn(t) \/ Probe1Exit(t) \/ Step1Set(t) \/ Step1SetDone(t)
               \/ Step1Get(t) \/ Step1GetDone(t) \/ SpawnAction(t) \/ ActionExit(t)
               \/ TargetSet(t) \/ TargetSetDone(t) \/ Probe2Spawn(t) \/ Probe2Exit(t)
               \/ VerifiedSet(t) \/ VerifiedSetDone(t))

(* ------------------- ToggleStateManager::toggle_state ------------------ *)
\* A name is first given a known value by set_state(name, s); then tasks call
\* toggle_state(name), which is get_state, ToggleState::toggle, set_state.

\* set_state(name, s), up to and including the insert
SetupSet(t) ==
  /\ pc[t] = "idle"
  /\ \E n \in ToggleNames, s \in {On, Off} :
       /\ init0[n] = NoneStr
       /\ init0' = [init0 EXCEPT ![n] = s]
       /\ button_name' = [button_name EXCEPT ![t] = n]
       /\ set_state_locked(t, n, s)
  /\ pc' = [pc EXCEPT ![t] = "tinit_held"]
  /\ UNCHANGED <<runVars, uiVars, probeVars, current_state, pressVars, nToggles, apiVars>>

SetupSetDone(t) ==
  /\ pc[t] = "tinit_held"
  /\ set_state_unlock(t)
  /\ pc' = [pc EXCEPT ![t] = "idle"]
  /\ UNCHANGED <<runVars, uiVars, probeVars, button_name, current_state, pressVars, toggleVars, apiVars>>

\* toggle_state(name) is called
ToggleCall(t) ==
  /\ pc[t] = "idle"
  /\ \E n \in ToggleNames :
       /\ init0[n] # NoneStr
       /\ nToggles[n] < MaxToggles
       /\ nToggles' = [nToggles EXCEPT ![n] = @ + 1]
       /\ button_name' = [button_name EXCEPT ![t] = n]
  /\ pc' = [pc EXCEPT ![t] = "tget"]
  /\ UNCHANGED <<runVars, uiVars, probeVars, storeVars, current_state, touched, pressVars, init0, apiVars>>

\* let current_state = self.get_state(button_name)
ToggleGet(t) ==
  /\ pc[t] = "tget"
  /\ get_state_locked(t, button_name[t])
  /\ pc' = [pc EXCEPT ![t] = "tget_held"]
  /\ UNCHANGED <<runVars, uiVars, probeVars, button_name, pressVars, toggleVars, apiVars>>

ToggleGetDone(t) ==
  /\ pc[t] = "tget_held"
  /\ get_state_unlock(t)
  /\ pc' = [pc EXCEPT ![t] = "tput"]
  /\ UNCHANGED <<runVars, uiVars, probeVars, button_name, current_state, pressVars, toggleVars, apiVars>>

\* let new_state = current_state.toggle(); self.set_state(button_name, new_state)
ToggleSet(t) ==
  /\ pc[t] = "tput"
  /\ set_state_locked(t, button_name[t], toggle(current_state[t]))
  /\ pc' = [pc EXCEPT ![t] = "tput_held"]
  /\ UNCHANGED <<runVars, uiVars, probeVars, button_name, current_state, pressVars, toggleVars, apiVars>>

\* end of set_state; toggle_state returns new_state
ToggleSetDone(t) ==
  /\ pc[t] = "tput_held"
  /\ set_state_unlock(t)
  /\ pc' = [pc EXCEPT ![t] = "idle"]
  /\ UNCHANGED <<runVars, uiVars, probeVars, button_name, current_state, pressVars, toggleVars, apiVars>>

NextToggle ==
  \E t \in Tasks :
    \/ SetupSet(t)
    \/ SetupSetDone(t)
    \/ ToggleCall(t)
    \/ ToggleGet(t)
    \/ ToggleGetDone(t)
    \/ ToggleSet(t)
    \/ ToggleSetDone(t)

SpecToggle == Init /\ [][NextToggle]_vars

(* ------------------ ToggleStateManager: the whole API ------------------ *)
\* In SpecStore every task calls the methods of the store in any order; in
\* SpecThreads every task is a thread running set_state, toggle_state (k times)
\* and get_state on one name, and the main thread counts after joining them.

\* mutant: a failed probe is recorded as Unknown
ProbeUpdateState_unknown(b) == IF b THEN On ELSE Unknown
\* update_from_probe: let new_state = if probe_success { On } else { Off }
ProbeUpdateState(b) == IF b THEN On ELSE Off


\* mutant: button_count counts the known states only
Count_known(m) == Cardinality({n \in DOMAIN m : m[n] # Unknown})
\* button_count: states.len()
Count(m) == Cardinality(DOMAIN m)


\* the first position of a method
EntryPc(o) ==
  CASE o \in {"get", "toggle"} -> "a_get"
    [] o \in {"set", "update"} -> "a_set"
    [] o = "clear" -> "a_clear"
    [] OTHER -> "a_count"

\* a method of the store is called
BeginCall(t, o, n, s, b) ==
  /\ op' = [op EXCEPT ![t] = o]
  /\ button_name' = [button_name EXCEPT ![t] = n]
  /\ arg_state' = [arg_state EXCEPT ![t] = IF o = "update" THEN ProbeUpdateState(b) ELSE s]
  /\ probe_success' = [probe_success EXCEPT ![t] = b]
  /\ previous' = [previous EXCEPT ![t] = "unset"]
  /\ ret' = [ret EXCEPT ![t] = "unset"]
  /\ pc' = [pc EXCEPT ![t] = EntryPc(o)]
  /\ ops' = ops + 1

\* any caller, any method: get_state, set_state, toggle_state, update_from_probe,
\* clear_all, button_count
ApiCall(t) ==
  /\ pc[t] \in {"idle", "ready"}
  /\ ops < MaxOps
  /\ \/ \E n \in ToggleNames : BeginCall(t, "get", n, "unset", FALSE)
     \/ \E n \in ToggleNames, s \in ToggleState : BeginCall(t, "set", n, s, FALSE)
     \/ \E n \in ToggleNames : BeginCall(t, "toggle", n, "unset", FALSE)
     \/ \E n \in ToggleNames, b \in BOOLEAN : BeginCall(t, "update", n, "unset", b)
     \/ BeginCall(t, "clear", NoneStr, "unset", FALSE)
     \/ BeginCall(t, "count", NoneStr, "unset", FALSE)
  /\ UNCHANGED <<runVars, uiVars, probeVars, storeVars, current_state, touched, pressVars, toggleVars, count_ret,
                 written, everWritten, lastval, script, rets, main_count>>

\* get_state (also the one inside toggle_state): the read under the read guard
ApiGet(t) ==
  /\ pc[t] = "a_get"
  /\ get_state_locked(t, button_name[t])
  /\ pc' = [pc EXCEPT ![t] = "a_get_held"]
  /\ UNCHANGED <<runVars, uiVars, probeVars, button_name, pressVars, toggleVars, apiVars>>

\* get_state returns; toggle_state goes on with current_state.toggle() and set_state
ApiGetDone(t) ==
  /\ pc[t] = "a_get_held"
  /\ get_state_unlock(t)
  /\ IF op[t] = "toggle"
     THEN /\ arg_state' = [arg_state EXCEPT ![t] = toggle(current_state[t])]
          /\ pc' = [pc EXCEPT ![t] = "a_set"]
          /\ UNCHANGED ret
     ELSE /\ ret' = [ret EXCEPT ![t] = current_state[t]]
          /\ pc' = [pc EXCEPT ![t] = "ready"]
          /\ UNCHANGED arg_state
  /\ UNCHANGED <<runVars, uiVars, probeVars, button_name, current_state, pressVars, toggleVars, op, probe_success,
                 previous, count_ret, written, everWritten, lastval, ops, script, rets,
                 main_count>>

\* set_state (also the one inside toggle_state and update_from_probe): the insert
ApiSet(t) ==
  /\ pc[t] = "a_set"
  /\ set_state_locked(t, button_name[t], arg_state[t])
  /\ previous' = [previous EXCEPT ![t] = Entry(states, button_name[t])]
  /\ written' = written \cup {button_name[t]}
  /\ everWritten' = everWritten \cup {button_name[t]}
  /\ lastval' = [lastval EXCEPT ![button_name[t]] = arg_state[t]]
  /\ pc' = [pc EXCEPT ![t] = "a_set_held"]
  /\ UNCHANGED <<runVars, uiVars, probeVars, button_name, current_state, pressVars, toggleVars, op, arg_state,
                 probe_success, ret, count_ret, ops, script, rets, main_count>>

\* set_state returns; toggle_state returns new_state
ApiSetDone(t) ==
  /\ pc[t] = "a_set_held"
  /\ set_state_unlock(t)
  /\ IF op[t] = "toggle"
     THEN /\ ret' = [ret EXCEPT ![t] = arg_state[t]]
          /\ rets' = [rets EXCEPT ![t] = IF script[t] # NoScript
                                         THEN Append(@, arg_state[t]) ELSE @]
     ELSE UNCHANGED <<ret, rets>>
  /\ pc' = [pc EXCEPT ![t] = "ready"]
  /\ UNCHANGED <<runVars, uiVars, probeVars, button_name, current_state, pressVars, toggleVars, op, arg_state,
                 probe_success, previous, count_ret, written, everWritten, lastval,
                 ops, script, main_count>>

\* clear_all: states.clear() under the write guard
ApiClear(t) ==
  /\ pc[t] = "a_clear"
  /\ CanWrite
  /\ lockW' = t
  /\ states' = EmptyMap   \* states.clear()
  \* history: clear_all hits the entry of every other task's name
  /\ touched' = [u \in Tasks |-> IF u # t /\ pc[u] # "idle" THEN TRUE ELSE touched[u]]
  /\ written' = {}
  /\ lastval' = [n \in Names |-> NoneStr]
  /\ pc' = [pc EXCEPT ![t] = "a_clear_held"]
  /\ UNCHANGED <<runVars, uiVars, probeVars, lockR, button_name, current_state, pressVars, toggleVars, op, arg_state,
                 probe_success, previous, ret, count_ret, everWritten, ops, script,
                 rets, main_count>>

ApiClearDone(t) ==
  /\ pc[t] = "a_clear_held"
  /\ set_state_unlock(t)
  /\ pc' = [pc EXCEPT ![t] = "ready"]
  /\ UNCHANGED <<runVars, uiVars, probeVars, button_name, current_state, pressVars, toggleVars, apiVars>>

\* button_count: states.len() under a read guard
ApiCount(t) ==
  /\ pc[t] = "a_count"
  /\ CanRead
  /\ lockR' = lockR \cup {t}
  /\ count_ret' = [count_ret EXCEPT ![t] = Count(states)]
  /\ pc' = [pc EXCEPT ![t] = "a_count_held"]
  /\ UNCHANGED <<runVars, uiVars, probeVars, lockW, states, touched, button_name, current_state, pressVars,
                 toggleVars, op, arg_state, probe_success, previous, ret, written,
                 everWritten, lastval, ops, script, rets, main_count>>

ApiCountDone(t) ==
  /\ pc[t] = "a_count_held"
  /\ get_state_unlock(t)
  /\ pc' = [pc EXCEPT ![t] = "ready"]
  /\ UNCHANGED <<runVars, uiVars, probeVars, button_name, current_state, pressVars, toggleVars, apiVars>>

NextStore ==
  \E t \in Tasks :
    \/ ApiCall(t)
    \/ ApiGet(t)
    \/ ApiGetDone(t)
    \/ ApiSet(t)
    \/ ApiSetDone(t)
    \/ ApiClear(t)
    \/ ApiClearDone(t)
    \/ ApiCount(t)
    \/ ApiCountDone(t)

SpecStore == Init /\ [][NextStore]_vars

(* ------------- threads: set_state; toggle_state * k; get_state ---------- *)
\* the value a thread sets first; SkipSet is a thread that starts without a set
SkipSet == "skip"

\* what a thread calls next: its toggles, then one get_state, then it ends
NextOp(sc, done, last) ==
  IF done < sc.k THEN "toggle"
  ELSE IF last # "get" THEN "get"
  ELSE NoneStr

\* a thread is spawned on a name with its first value and its number of toggles
ThreadStart(t) ==
  /\ pc[t] = "idle"
  /\ script[t] = NoScript
  /\ \E n \in ToggleNames, v \in ToggleState \cup {SkipSet}, k \in 0..MaxRunToggles :
       /\ script' = [script EXCEPT ![t] = [v |-> v, k |-> k]]
       /\ pre' = [pre EXCEPT ![t] = Entry(states, n)]
       /\ IF v # SkipSet
          THEN BeginCall(t, "set", n, v, FALSE)
          ELSE BeginCall(t, NextOp([v |-> v, k |-> k], 0, NoneStr), n, "unset", FALSE)
  /\ touched' = [touched EXCEPT ![t] = FALSE]
  /\ UNCHANGED <<runVars, uiVars, action_status, action_out, runner, probeVars, storeVars, current_state, mode, probe_command, probe_result, command,
                 expected_new_state, exit_code, verify_probe, result, proc, nAction,
                 nProbe, nWrites, presses, init0, toggleVars, count_ret, written,
                 everWritten, lastval, rets, main_count>>

\* the thread's next call, or its end
ThreadNext(t) ==
  /\ pc[t] = "ready"
  /\ script[t] # NoScript
  /\ IF NextOp(script[t], Len(rets[t]), op[t]) = NoneStr
     THEN /\ pc' = [pc EXCEPT ![t] = "th_done"]
          /\ UNCHANGED <<button_name, op, arg_state, probe_success, previous, ret, ops>>
     ELSE BeginCall(t, NextOp(script[t], Len(rets[t]), op[t]), button_name[t],
                    "unset", FALSE)
  /\ UNCHANGED <<runVars, uiVars, action_status, action_out, runner, probeVars, storeVars, current_state, touched, mode, probe_command, probe_result,
                 command, expected_new_state, exit_code, verify_probe, result, proc,
                 pre, nAction, nProbe, nWrites, presses, init0, toggleVars, count_ret,
                 written, everWritten, lastval, script, rets, main_count>>

\* the main thread, after joining every thread: manager.button_count()
MainCount ==
  /\ \A t \in Tasks : pc[t] = "th_done"
  /\ main_count = NoCount
  /\ CanRead
  /\ main_count' = Count(states)
  /\ UNCHANGED <<runVars, uiVars, probeVars, storeVars, button_name, current_state, touched, pc, pressVars,
                 toggleVars, op, arg_state, probe_success, previous, ret, count_ret,
                 written, everWritten, lastval, ops, script, rets>>

NextThreads ==
  \/ \E t \in Tasks :
       \/ ThreadStart(t)
       \/ ThreadNext(t)
       \/ ApiGet(t)
       \/ ApiGetDone(t)
       \/ ApiSet(t)
       \/ ApiSetDone(t)
  \/ MainCount

SpecThreads == Init /\ [][NextThreads]_vars

(* ---------- execute_probe_command / execute_probe_command_with_config --- *)
\* cmd.output(): the child is spawned, or the spawn fails with an io::Error
SpawnChild(fn, cfg) ==
  /\ probe_fn' = fn
  /\ config' = cfg
  /\ probe_pc' = "waiting"
  /\ \/ /\ child' = "running"
        /\ nSpawns' = nSpawns + 1
        /\ UNCHANGED spawn_error
     \/ /\ child' = "spawn_failed"
        /\ \E e \in {"No such file or directory (os error 2)",
                     "Permission denied (os error 13)"} : spawn_error' = e
        /\ UNCHANGED nSpawns
  /\ UNCHANGED <<status, stdout, stderr, probe_out, nResults, arm, childAtReturn>>
  /\ UNCHANGED <<runVars, uiVars, storeVars, pc, button_name, current_state, touched, pressVars,
                 toggleVars, apiVars>>

\* execute_probe_command(command, args, button_name) is called
RunCall ==
  /\ probe_pc = "idle"
  /\ SpawnChild("run", NoConfig)

\* execute_probe_command_with_config(command, args, button_name, config) is called
RunWithConfigCall ==
  /\ probe_pc = "idle"
  /\ \E cfg \in Configs : SpawnChild("run_with_config", cfg)

\* the child exits, or is ended by a signal: its status and output exist from now on;
\* a child whose caller timed out is not killed and exits later
ChildExit ==
  /\ child = "running"
  /\ child' = "exited"
  /\ \E st \in ExitStatuses, out \in SeqsUpTo(MaxLen), err \in {"", "warn"} :
       /\ status' = st
       /\ stdout' = out
       /\ stderr' = err
  /\ UNCHANGED <<probe_pc, probe_fn, config, spawn_error, probe_out, nResults,
                 nSpawns, arm, childAtReturn>>
  /\ UNCHANGED <<runVars, uiVars, storeVars, pc, button_name, current_state, touched, pressVars,
                 toggleVars, apiVars>>

\* the Ok(output) arms: the result is built from the status and the output
ReturnOutput ==
  /\ probe_pc = "waiting"
  /\ child = "exited"
  /\ probe_out' = IF probe_fn = "run"
                  THEN WithOutput(ProbeOutput(status), stdout, stderr)
                  ELSE WithOutput(ConfigOutput(status, stdout, config), stdout, stderr)
  /\ nResults' = nResults + 1
  /\ probe_pc' = "returned"
  /\ arm' = "output"
  /\ childAtReturn' = child
  /\ UNCHANGED <<probe_fn, config, child, status, stdout, stderr, spawn_error, nSpawns>>
  /\ UNCHANGED <<runVars, uiVars, storeVars, pc, button_name, current_state, touched, pressVars,
                 toggleVars, apiVars>>

\* the Err(e) / Ok(Err(e)) arms
ReturnSpawnError ==
  /\ probe_pc = "waiting"
  /\ child = "spawn_failed"
  /\ probe_out' = ExecutionError("Command execution failed: " \o spawn_error)
  /\ nResults' = nResults + 1
  /\ probe_pc' = "returned"
  /\ arm' = "spawn_error"
  /\ childAtReturn' = child
  /\ UNCHANGED <<probe_fn, config, child, status, stdout, stderr, spawn_error, nSpawns>>
  /\ UNCHANGED <<runVars, uiVars, storeVars, pc, button_name, current_state, touched, pressVars,
                 toggleVars, apiVars>>

\* the Err(_) arm of tokio::time::timeout: the child has not finished in time
ReturnTimeout ==
  /\ probe_pc = "waiting"
  /\ probe_fn = "run_with_config"
  /\ child = "running"
  /\ probe_out' = ExecutionError(TimeoutMessage(config))
  /\ nResults' = nResults + 1
  /\ probe_pc' = "returned"
  /\ arm' = "timeout"
  /\ childAtReturn' = child
  /\ UNCHANGED <<probe_fn, config, child, status, stdout, stderr, spawn_error, nSpawns>>
  /\ UNCHANGED <<runVars, uiVars, storeVars, pc, button_name, current_state, touched, pressVars,
                 toggleVars, apiVars>>

NextProbe ==
  \/ RunCall
  \/ RunWithConfigCall
  \/ ChildExit
  \/ ReturnOutput
  \/ ReturnSpawnError
  \/ ReturnTimeout

SpecProbe == Init /\ [][NextProbe]_vars

(* --------------------- execute_command_with_output ---------------------- *)
\* cmd.spawn(): the child runs with both pipes and both drain tasks, or Err(e)
RunSpawn ==
  /\ run_pc = "idle"
  /\ \/ /\ cmd_child' = "running"
        /\ reader_open' = [p \in Streams |-> TRUE]
        /\ run_pc' = "waiting"
        /\ UNCHANGED run_result
     \/ /\ cmd_child' = "spawn_failed"
        /\ run_result' = RunErr("spawn")
        /\ run_pc' = "returned"
        /\ UNCHANGED reader_open
  /\ UNCHANGED <<pending, pipe, drain_done, output, wrote, run_status>>
  /\ UNCHANGED <<storeVars, pc, button_name, current_state, touched, pressVars,
                 toggleVars, apiVars, probeVars, uiVars>>

\* the child starts to write a line to one of its pipes
ChildBeginWrite ==
  /\ cmd_child = "running"
  /\ pending = NoWrite
  /\ Len(wrote["out"]) + Len(wrote["err"]) < MaxWrites
  /\ \E p \in Streams, l \in {"a", BadLine} : pending' = <<p, l>>
  /\ UNCHANGED <<run_pc, cmd_child, pipe, reader_open, drain_done, output, wrote,
                 run_status, run_result>>
  /\ UNCHANGED <<storeVars, pc, button_name, current_state, touched, pressVars,
                 toggleVars, apiVars, probeVars, uiVars>>

\* the write goes through when the pipe has room; it blocks while the pipe is full
ChildWrite ==
  /\ cmd_child = "running"
  /\ pending # NoWrite
  /\ reader_open[pending[1]]
  /\ Len(pipe[pending[1]]) < PipeCap
  /\ pipe' = [pipe EXCEPT ![pending[1]] = Append(@, pending[2])]
  /\ wrote' = [wrote EXCEPT ![pending[1]] = Append(@, pending[2])]
  /\ pending' = NoWrite
  /\ UNCHANGED <<run_pc, cmd_child, reader_open, drain_done, output, run_status,
                 run_result>>
  /\ UNCHANGED <<storeVars, pc, button_name, current_state, touched, pressVars,
                 toggleVars, apiVars, probeVars, uiVars>>

\* a write to a pipe whose reader was dropped: SIGPIPE or EPIPE ends the child
ChildBrokenPipe ==
  /\ cmd_child = "running"
  /\ pending # NoWrite
  /\ ~reader_open[pending[1]]
  /\ cmd_child' = "exited"
  /\ \E st \in ExitStatuses : run_status' = st
  /\ UNCHANGED <<run_pc, pending, pipe, reader_open, drain_done, output, wrote,
                 run_result>>
  /\ UNCHANGED <<storeVars, pc, button_name, current_state, touched, pressVars,
                 toggleVars, apiVars, probeVars, uiVars>>

\* the child exits, or is ended by a signal; its ends of the pipes close
ChildFinish ==
  /\ cmd_child = "running"
  /\ pending = NoWrite
  /\ cmd_child' = "exited"
  /\ \E st \in ExitStatuses : run_status' = st
  /\ UNCHANGED <<run_pc, pending, pipe, reader_open, drain_done, output, wrote,
                 run_result>>
  /\ UNCHANGED <<storeVars, pc, button_name, current_state, touched, pressVars,
                 toggleVars, apiVars, probeVars, uiVars>>

\* one turn of while let Ok(Some(line)) = lines.next_line().await: a line is
\* appended to output, or Err ends the loop and the reader is dropped
DrainLine(p) ==
  /\ reader_open[p]
  /\ ~drain_done[p]
  /\ DrainRuns(p)
  /\ pipe[p] # <<>>
  /\ IF Head(pipe[p]) = BadLine
     THEN /\ drain_done' = [drain_done EXCEPT ![p] = TRUE]
          /\ reader_open' = [reader_open EXCEPT ![p] = FALSE]
          /\ pipe' = [pipe EXCEPT ![p] = <<>>]
          /\ UNCHANGED output
     ELSE /\ output' = [output EXCEPT ![p] = (IF @ # <<>> THEN Append(@, Newline) ELSE @)
                                             \o <<Head(pipe[p])>>]
          /\ pipe' = [pipe EXCEPT ![p] = Tail(@)]
          /\ UNCHANGED <<drain_done, reader_open>>
  /\ UNCHANGED <<run_pc, cmd_child, pending, wrote, run_status, run_result>>
  /\ UNCHANGED <<storeVars, pc, button_name, current_state, touched, pressVars,
                 toggleVars, apiVars, probeVars, uiVars>>

\* next_line() gives Ok(None): the pipe is empty and the child's end is closed
DrainEof(p) ==
  /\ reader_open[p]
  /\ ~drain_done[p]
  /\ DrainRuns(p)
  /\ pipe[p] = <<>>
  /\ cmd_child = "exited"
  /\ drain_done' = [drain_done EXCEPT ![p] = TRUE]
  /\ reader_open' = [reader_open EXCEPT ![p] = FALSE]
  /\ UNCHANGED <<run_pc, cmd_child, pending, pipe, output, wrote, run_status, run_result>>
  /\ UNCHANGED <<storeVars, pc, button_name, current_state, touched, pressVars,
                 toggleVars, apiVars, probeVars, uiVars>>

\* child.wait().await gives Ok(status)
WaitReturns ==
  /\ run_pc = "waiting"
  /\ cmd_child = "exited"
  /\ run_pc' = "joining"
  /\ UNCHANGED <<cmd_child, pending, pipe, reader_open, drain_done, output, wrote,
                 run_status, run_result>>
  /\ UNCHANGED <<storeVars, pc, button_name, current_state, touched, pressVars,
                 toggleVars, apiVars, probeVars, uiVars>>

\* child.wait().await gives Err(e): the call returns, the tasks are left behind
WaitFails ==
  /\ run_pc = "waiting"
  /\ run_result' = RunErr("wait")
  /\ run_pc' = "returned"
  /\ UNCHANGED <<cmd_child, pending, pipe, reader_open, drain_done, output, wrote,
                 run_status>>
  /\ UNCHANGED <<storeVars, pc, button_name, current_state, touched, pressVars,
                 toggleVars, apiVars, probeVars, uiVars>>

\* tokio::join!(stdout_task, stderr_task), then Ok((exit_code, stdout, stderr))
RunJoin ==
  /\ run_pc = "joining"
  /\ \A p \in Streams : drain_done[p]
  /\ run_result' = [ok |-> TRUE, exit_code |-> Some(RunnerExitCode(run_status)),
                    stdout |-> output["out"], stderr |-> output["err"], err |-> NoneStr]
  /\ run_pc' = "returned"
  /\ UNCHANGED <<cmd_child, pending, pipe, reader_open, drain_done, output, wrote,
                 run_status>>
  /\ UNCHANGED <<storeVars, pc, button_name, current_state, touched, pressVars,
                 toggleVars, apiVars, probeVars, uiVars>>

NextRunner ==
  \/ RunSpawn
  \/ ChildBeginWrite
  \/ ChildWrite
  \/ ChildBrokenPipe
  \/ ChildFinish
  \/ \E p \in Streams : DrainLine(p)
  \/ \E p \in Streams : DrainEof(p)
  \/ WaitReturns
  \/ WaitFails
  \/ RunJoin

SpecRunner == Init /\ [][NextRunner]_vars

\* the runtime schedules every task that can run, and the child runs
SpecRunnerLive ==
  /\ SpecRunner
  /\ WF_vars(ChildBeginWrite \/ ChildWrite \/ ChildBrokenPipe \/ ChildFinish)
  /\ \A p \in Streams : WF_vars(DrainLine(p)) /\ WF_vars(DrainEof(p))
  /\ WF_vars(WaitReturns)
  /\ WF_vars(RunJoin)

(* ------------------- Command buttons: the click handler ----------------- *)
\* a press of a Command button is a number; handler, job are indexed by it
PressIds == 1..Len(handler)

\* mutant: the handler reports the failure of its command
HandlerResult_surfaced(j) == IF j \in {"spawn_failed", "wait_failed"} THEN "Err" ELSE "Ok"
\* async move { Ok(()) }
HandlerResult(j) == "Ok"

\* the closure of ClickButton::new is called: tokio::spawn(async move { .. }),
\* and the future async move { Ok(()) } is handed back
PressCommand ==
  /\ Len(handler) < MaxCmdPresses
  /\ handler' = Append(handler, "pending")
  /\ job' = Append(job, "spawned")
  /\ UNCHANGED <<shown, log, displayed, path, nav_log, menu, has_parent, view>>
  /\ UNCHANGED <<storeVars, pc, button_name, current_state, touched, pressVars,
                 toggleVars, apiVars, probeVars, runVars>>

\* the handler's future completes
HandlerReturn(i) ==
  /\ i \in PressIds
  /\ handler[i] = "pending"
  /\ handler' = [handler EXCEPT ![i] = HandlerResult(job[i])]
  /\ UNCHANGED <<shown, job, log, displayed, path, nav_log, menu, has_parent, view>>
  /\ UNCHANGED <<storeVars, pc, button_name, current_state, touched, pressVars,
                 toggleVars, apiVars, probeVars, runVars>>

\* the spawned task runs execute_command: cmd.spawn() gives the child, or
\* Err(e), which is logged by error!
TaskSpawn(i) ==
  /\ i \in PressIds
  /\ job[i] = "spawned"
  /\ \/ /\ job' = [job EXCEPT ![i] = "running"]
        /\ UNCHANGED log
     \/ /\ job' = [job EXCEPT ![i] = "spawn_failed"]
        /\ log' = log \cup {<<i, "error">>}
  /\ UNCHANGED <<shown, handler, displayed, path, nav_log, menu, has_parent, view>>
  /\ UNCHANGED <<storeVars, pc, button_name, current_state, touched, pressVars,
                 toggleVars, apiVars, probeVars, runVars>>

\* child.wait() and the join of the two drain tasks: info! on status.success(),
\* warn! otherwise, error! when wait fails
TaskExit(i) ==
  /\ i \in PressIds
  /\ job[i] = "running"
  /\ \/ \E st \in ExitStatuses :
          /\ job' = [job EXCEPT ![i] = IF status_success(st) THEN "exited_zero"
                                       ELSE "exited_nonzero"]
          /\ log' = log \cup {<<i, IF status_success(st) THEN "info" ELSE "warn">>}
     \/ /\ job' = [job EXCEPT ![i] = "wait_failed"]
        /\ log' = log \cup {<<i, "error">>}
  /\ UNCHANGED <<shown, handler, displayed, path, nav_log, menu, has_parent, view>>
  /\ UNCHANGED <<storeVars, pc, button_name, current_state, touched, pressVars,
                 toggleVars, apiVars, probeVars, runVars>>

NextPress ==
  \/ PressCommand
  \/ \E i \in 1..MaxCmdPresses : HandlerReturn(i)
  \/ \E i \in 1..MaxCmdPresses : TaskSpawn(i)
  \/ \E i \in 1..MaxCmdPresses : TaskExit(i)

SpecPress == Init /\ [][NextPress]_vars

(* ----------------------- labels and icons of buttons -------------------- *)
\* Button::Toggle; an icon name is Some(<<name>>) or Some(<<style, name>>),
\* the text before and after its first ':'
ToggleButton(n, on, off, ic) ==
  [kind |-> "Toggle", name |-> n, buttons |-> <<>>,
   on_icon |-> on, off_icon |-> off, icon |-> ic]

\* icons::resolve_icon: split at ':', upper-case the name, look it up in the
\* table of the style; a glyph is <<style, constant>>
resolve_icon(icon_name) ==
  IF icon_name = None THEN None
  ELSE LET spec == icon_name[1]
           style == IF Len(spec) > 1 THEN spec[1] ELSE "filled"
           name == spec[Len(spec)]
           const_name == CASE name \in {"home", "Home"} -> "HOME"
                           [] name = "wifi" -> "WIFI"
                           [] name = "help" -> "HELP"
                           [] name = "toggle_on" -> "TOGGLE_ON"
                           [] name = "toggle_off" -> "TOGGLE_OFF"
                           [] OTHER -> "OTHER"
           known == CASE style = "filled" -> {"HOME", "WIFI", "HELP"}
                      [] style \in {"outlined", "sharp", "two_tone"} -> {"HOME"}
                      [] OTHER -> {}
       IN IF style \in {"filled", "outlined", "sharp", "two_tone"}
          THEN Some(<<style, IF const_name \in known THEN const_name ELSE "TERMINAL">>)
          ELSE Some(<<"filled", "TERMINAL">>)

\* mutant: a button in Unknown state shows its on_icon when it has one
resolve_toggle_icon_unknownOn(button, m) ==
  IF button.kind # "Toggle" THEN resolve_icon(button.icon)
  ELSE IF button.on_icon # None THEN resolve_icon(button.on_icon)
  ELSE IF button.icon # None THEN resolve_icon(button.icon)
  ELSE resolve_icon(Some(<<"toggle_on">>))
\* toggle_icons::resolve_toggle_icon(button, state_manager)
resolve_toggle_icon(button, m) ==
  IF button.kind # "Toggle" THEN resolve_icon(button.icon)
  ELSE LET state_now == Lookup(m, button.name)
           first == CASE state_now = On -> button.on_icon
                      [] state_now = Off -> button.off_icon
                      [] OTHER -> None
           default == CASE state_now = On -> "toggle_on"
                        [] state_now = Off -> "toggle_off"
                        [] OTHER -> "help"
       IN IF first # None /\ resolve_icon(first) # None THEN resolve_icon(first)
          ELSE IF button.icon # None /\ resolve_icon(button.icon) # None
          THEN resolve_icon(button.icon)
          ELSE resolve_icon(Some(<<default>>))

\* mutant: a state that is not On is shown as Off
get_toggle_display_name_twoGlyphs(button, m) ==
  IF button.kind # "Toggle" THEN button.name
  ELSE IF Lookup(m, button.name) = On THEN button.name \o " ●"
  ELSE button.name \o " ○"
\* toggle_icons::get_toggle_display_name(button, state_manager)
get_toggle_display_name(button, m) ==
  IF button.kind # "Toggle" THEN button.name
  ELSE LET state_now == Lookup(m, button.name)
       IN CASE state_now = On -> button.name \o " ●"
            [] state_now = Off -> button.name \o " ○"
            [] OTHER -> button.name \o " ?"

\* a button is declared in the menu, with any of its icons set or left out
IconDeclare ==
  /\ menu = <<>>
  /\ LET IconOptions ==
         {None, Some(<<"wifi">>), Some(<<"Home">>), Some(<<"outlined", "home">>),
          Some(<<"outlined", "wifi">>), Some(<<"neon", "home">>)}
     IN \E on \in IconOptions, off \in IconOptions, ic \in IconOptions :
       \E b \in {ToggleButton("WiFi", on, off, ic),
                 CommandButton("WiFi") @@ [icon |-> ic],
                 MenuButton("WiFi", <<>>) @@ [icon |-> ic],
                 BackButton("WiFi") @@ [icon |-> ic]} :
         menu' = <<b>>
  /\ UNCHANGED <<shown, has_parent, view, displayed, path, nav_log, handler, job, log>>
  /\ UNCHANGED <<storeVars, pc, button_name, current_state, touched, pressVars,
                 toggleVars, apiVars, probeVars, runVars>>

\* state_manager.set_state(name, state), the whole call
IconSetState ==
  /\ CanWrite
  /\ \E n \in {"WiFi", "other"}, st \in ToggleState : states' = Insert(states, n, st)
  /\ UNCHANGED <<lockW, lockR>>
  /\ UNCHANGED <<shown, menu, has_parent, view, displayed, path, nav_log, handler, job, log>>
  /\ UNCHANGED <<pc, button_name, current_state, touched, pressVars,
                 toggleVars, apiVars, probeVars, runVars>>

\* a render: the view get_view builds, and the label and icon the two
\* functions of toggle_icons give for the button
IconRender ==
  /\ menu # <<>>
  /\ view' = create_view_from_menu(new(Menu("main", menu)))
  /\ shown' = [rendered |-> TRUE,
               label |-> get_toggle_display_name(menu[1], states),
               icon |-> resolve_toggle_icon(menu[1], states)]
  /\ UNCHANGED <<menu, has_parent, displayed, path, nav_log, handler, job, log>>
  /\ UNCHANGED <<storeVars, pc, button_name, current_state, touched, pressVars,
                 toggleVars, apiVars, probeVars, runVars>>

NextIcons ==
  \/ IconDeclare
  \/ IconSetState
  \/ IconRender

SpecIcons == Init /\ [][NextIcons]_vars

(* ------------------------- rendering a wide menu ------------------------ *)
\* the node is a descended one: it has a parent
GridParent ==
  /\ ~view.rendered
  /\ menu = <<>>
  /\ ~has_parent
  /\ has_parent' = TRUE
  /\ UNCHANGED <<shown, menu, view, displayed, path, nav_log, handler, job, log>>
  /\ UNCHANGED <<storeVars, pc, button_name, current_state, touched, pressVars,
                 toggleVars, apiVars, probeVars, runVars>>

\* one more button is declared in the menu
GridDeclare ==
  /\ ~view.rendered
  /\ Len(menu) < MaxButtons
  /\ \E b \in {CommandButton("cmd"), MenuButton("menu", <<CommandButton("inner")>>),
                BackButton("Back")} :
       /\ b.kind # "Command" => Special(menu) < MaxSpecial
       /\ menu' = Append(menu, b)
  /\ UNCHANGED <<shown, has_parent, view, displayed, path, nav_log, handler, job, log>>
  /\ UNCHANGED <<storeVars, pc, button_name, current_state, touched, pressVars,
                 toggleVars, apiVars, probeVars, runVars>>

\* get_view: self.create_view_from_menu()
GridRender ==
  /\ ~view.rendered
  /\ view' = create_view_from_menu(WideNode)
  /\ UNCHANGED <<shown, menu, has_parent, displayed, path, nav_log, handler, job, log>>
  /\ UNCHANGED <<storeVars, pc, button_name, current_state, touched, pressVars,
                 toggleVars, apiVars, probeVars, runVars>>

NextGrid ==
  \/ GridParent
  \/ GridDeclare
  \/ GridRender

SpecGrid == Init /\ [][NextGrid]_vars

(* ============================ properties =============================== *)
Done(t) == pc[t] = "done"
HasProbe(t) == probe_command[t] # NoneStr
\* the action command ran and its exit code, as the Command Runner reports it, is not 0
NonZeroExit(t) == Len(exit_code[t]) = 1 /\ exit_code[t][1] # 0
ZeroExit(t) == exit_code[t] = Some(0)
\* what get_state returned for the button when the press began
PreState(t) == IF pre[t] = "absent" THEN Unknown ELSE pre[t]
MyEntry(t) == Entry(states, button_name[t])
MyState(t) == Lookup(states, button_name[t])
Step1Pcs == {"probe1", "probe1_wait", "set1", "set1_held", "get1", "get1_held"}
AfterStep1Pcs == {"select", "action_wait", "set2", "set2_held", "probe2", "probe2_wait",
                  "set3", "set3_held", "done"}
\* the store writes of step 1: one with a probe, none without
Step1Writes(t) == IF HasProbe(t) THEN 1 ELSE 0

\* C1 (as claimed): after a press whose action exited non-zero, with or without
\* a probe, the store reads for the button what it read before the press began,
\* and the result is a failure with an error message.
C1_Original ==
  \A t \in Tasks :
    (Done(t) /\ NonZeroExit(t) /\ exit_code[t][1] > 0 /\ ~touched[t]) =>
      /\ MyState(t) = PreState(t)
      /\ ~result[t].success
      /\ result[t].error_message # None

\* C1 (amended): after a press whose action exited non-zero the result is a
\* failure with an error message; the press wrote nothing but step 1's probed
\* state: without a probe the entry is the one from before the press, with a
\* probe it is the probed current state.
C1_FailedPressStore ==
  \A t \in Tasks :
    (Done(t) /\ NonZeroExit(t)) =>
      /\ ~result[t].success
      /\ result[t].error_message # None
      /\ Len(result[t].error_message[1]) > 0
      /\ nWrites[t] = Step1Writes(t)
      /\ ~touched[t] =>
           IF HasProbe(t) THEN MyEntry(t) = current_state[t]
                          ELSE MyEntry(t) = pre[t]

C1_Witness ==
  \E t \in Tasks :
    /\ Done(t) /\ NonZeroExit(t) /\ HasProbe(t) /\ ~touched[t]
    /\ pre[t] = On /\ MyEntry(t) = Off /\ ~result[t].success

\* C2: on a failed press (action exit code not 0) new_state is the current state
\* of step 1 (the probed state with a probe, the stored state without), not the
\* target, and the press writes nothing to the store from the start of the
\* action command on.
C2_FailureKeepsCurrent ==
  \A t \in Tasks :
    /\ (Done(t) /\ NonZeroExit(t)) =>
         /\ result[t].new_state = current_state[t]
         /\ result[t].new_state # expected_new_state[t]
         /\ HasProbe(t) => current_state[t] =
              (IF is_success(probe_result[t]) THEN On
               ELSE IF is_command_failure(probe_result[t]) THEN Off ELSE Unknown)
         /\ (~HasProbe(t) /\ ~touched[t]) => current_state[t] = PreState(t)
    /\ (pc[t] = "action_wait" \/ (Done(t) /\ ~result[t].success)) =>
         nWrites[t] = Step1Writes(t)

C2_Witness ==
  \E t \in Tasks :
    /\ Done(t) /\ NonZeroExit(t) /\ ~HasProbe(t) /\ ~touched[t]
    /\ pre[t] = On /\ result[t].new_state = On /\ expected_new_state[t] = Off
    /\ MyEntry(t) = On

\* C3: with a probe and an action that exited 0, the verification probe wins
\* over the target: a probe command failure ends in Off (store and new_state),
\* a probe success ends in On, whatever the target was, and the result is a
\* success.
C3_VerifiedWins ==
  \A t \in Tasks :
    (Done(t) /\ HasProbe(t) /\ ZeroExit(t)) =>
      /\ result[t].success
      /\ is_command_failure(verify_probe[t]) =>
           /\ result[t].new_state = Off
           /\ ~touched[t] => MyEntry(t) = Off
      /\ is_success(verify_probe[t]) =>
           /\ result[t].new_state = On
           /\ ~touched[t] => MyEntry(t) = On

C3_Witness ==
  \E t \in Tasks :
    /\ Done(t) /\ HasProbe(t) /\ ZeroExit(t) /\ ~touched[t]
    /\ expected_new_state[t] = On
    /\ is_command_failure(verify_probe[t])
    /\ result[t].success /\ result[t].new_state = Off /\ MyEntry(t) = Off

\* C4 (as claimed): a verification probe that could not be run gives Unknown,
\* which is written to the store and returned as new_state.
C4_Original ==
  \A t \in Tasks :
    (Done(t) /\ HasProbe(t) /\ ZeroExit(t) /\ is_execution_error(verify_probe[t])) =>
      /\ result[t].new_state = Unknown
      /\ ~touched[t] => MyEntry(t) = Unknown

\* C4 (amended): the verification probe maps success to On and command failure
\* to Off as step 1 does, but an execution error keeps the expected target state
\* (never Unknown); that state is written to the store and returned as new_state.
C4_VerifyMapping ==
  \A t \in Tasks :
    (Done(t) /\ HasProbe(t) /\ ZeroExit(t)) =>
      /\ result[t].new_state =
           (IF verify_probe[t].success /\ verify_probe[t].exit_code = Some(0) THEN On
            ELSE IF ~verify_probe[t].success /\ verify_probe[t].exit_code # None THEN Off
            ELSE expected_new_state[t])
      /\ is_execution_error(verify_probe[t]) => result[t].new_state \in {On, Off}
      /\ ~touched[t] => MyEntry(t) = result[t].new_state

C4_Witness ==
  \E t \in Tasks :
    /\ Done(t) /\ HasProbe(t) /\ ZeroExit(t) /\ ~touched[t]
    /\ is_execution_error(verify_probe[t])
    /\ current_state[t] = On
    /\ result[t].new_state = Off /\ MyEntry(t) = Off

\* C5: with a probe, step 1 runs the probe before an action command is chosen or
\* started, maps success to On, command failure to Off and execution error to
\* Unknown, and writes that state into the store; without a probe the current
\* state is the store's value and step 1 writes nothing.
C5_Step1 ==
  \A t \in Tasks :
    /\ pc[t] \in Step1Pcs => (nAction[t] = 0 /\ command[t] = NoCommand)
    /\ (HasProbe(t) /\ (nAction[t] > 0 \/ command[t] # NoCommand)) => nProbe[t] >= 1
    /\ (HasProbe(t) /\ pc[t] \in AfterStep1Pcs) =>
         /\ is_success(probe_result[t]) => current_state[t] = On
         /\ is_command_failure(probe_result[t]) => current_state[t] = Off
         /\ is_execution_error(probe_result[t]) => current_state[t] = Unknown
         /\ nWrites[t] >= 1
    /\ (HasProbe(t) /\ pc[t] = "select") =>
         /\ nProbe[t] = 1 /\ nWrites[t] = 1
         /\ ~touched[t] => MyEntry(t) = current_state[t]
    /\ (~HasProbe(t) /\ pc[t] = "select") =>
         /\ nProbe[t] = 0 /\ nWrites[t] = 0
         /\ ~touched[t] => (current_state[t] = PreState(t) /\ MyEntry(t) = pre[t])

C5_Witness ==
  \E t \in Tasks :
    /\ pc[t] = "select" /\ HasProbe(t) /\ ~touched[t]
    /\ is_execution_error(probe_result[t])
    /\ pre[t] = On /\ MyEntry(t) = Unknown /\ current_state[t] = Unknown

C7_SeparateSelection ==
  \A t \in Tasks :
    (mode[t] = "Separate" /\ (command[t] # NoCommand \/ proc[t] = "action")) =>
      /\ current_state[t] = On =>
           (command[t] = <<"off_command", "off_args">> /\ expected_new_state[t] = Off)
      /\ current_state[t] \in {Off, Unknown} =>
           (command[t] = <<"on_command", "on_args">> /\ expected_new_state[t] = On)
      /\ current_state[t] \in ToggleState

C7_Witness ==
  \E t \in Tasks :
    /\ mode[t] = "Separate" /\ proc[t] = "action"
    /\ current_state[t] = Unknown /\ command[t] = <<"on_command", "on_args">>

\* C9: a press never retries: the action command is started once, the probe not
\* at all without a probe, and otherwise once before the action and once more
\* only after the action exited 0.
C9_NoRetry ==
  \A t \in Tasks :
    /\ nAction[t] <= 1
    /\ ~HasProbe(t) => nProbe[t] = 0
    /\ nProbe[t] <= 2
    /\ nProbe[t] = 2 => (ZeroExit(t) /\ nAction[t] = 1)
    /\ (HasProbe(t) /\ nAction[t] = 1) => nProbe[t] >= 1
    /\ Done(t) =>
         /\ nAction[t] = 1
         /\ HasProbe(t) => nProbe[t] = (IF ZeroExit(t) THEN 2 ELSE 1)

C9_Witness ==
  \E t \in Tasks :
    /\ Done(t) /\ HasProbe(t) /\ NonZeroExit(t)
    /\ nAction[t] = 1 /\ nProbe[t] = 1

\* C10: no task holds the store's read or write lock while it is about to spawn
\* a process or while a process it started is running.
C10_NoLockAcrossProcess ==
  \A t \in Tasks :
    (proc[t] # NoneStr \/ pc[t] \in {"probe1", "select", "probe2"}) =>
      (lockW # t /\ t \notin lockR)

C10_Witness ==
  \E t \in Tasks :
    /\ proc[t] = "action" /\ ~HasProbe(t)
    /\ lockW # t /\ t \notin lockR

\* the state after k toggles that each invert it
RECURSIVE InvertN(_, _)
InvertN(s, k) == IF k = 0 THEN s ELSE InvertN(toggle(s), k - 1)

\* C8: when no toggle_state call is in progress, the stored state of a name is
\* the value it was set to, inverted once per toggle_state call made on it.
C8_Original ==
  (\A t \in Tasks : pc[t] = "idle") =>
    \A n \in Names :
      init0[n] # NoneStr => Lookup(states, n) = InvertN(init0[n], nToggles[n])

(* ------------------------ the store's contract -------------------------- *)
\* C11: get_state returns Unknown for every name that was never written, or
\* not written since the last clear_all, in every state of the store, and it
\* always returns one of the three states.
C11_UnwrittenReadsUnknown ==
  /\ \A n \in Names \ written : Lookup(states, n) = Unknown
  /\ \A t \in Tasks :
       /\ pc[t] = "a_get_held" =>
            /\ current_state[t] \in ToggleState
            /\ (button_name[t] \notin written => current_state[t] = Unknown)
       /\ (pc[t] = "ready" /\ op[t] = "get") => ret[t] \in ToggleState

\* a name written, then cleared, is read
C11_Witness ==
  \E t \in Tasks :
    /\ pc[t] = "a_get_held"
    /\ op[t] = "get"
    /\ button_name[t] \in everWritten \ written
    /\ lastval[button_name[t]] = NoneStr
    /\ current_state[t] = Unknown

\* C13: update_from_probe writes On when the probe succeeded and Off
\* otherwise, and never Unknown, whatever the entry was before.
C13_UpdateFromProbe ==
  \A t \in Tasks :
    (pc[t] = "a_set_held" /\ op[t] = "update") =>
      /\ button_name[t] \in DOMAIN states
      /\ states[button_name[t]] = (IF probe_success[t] THEN On ELSE Off)
      /\ states[button_name[t]] # Unknown

\* a failed probe overwrites a stored Unknown
C13_Witness ==
  \E t \in Tasks :
    /\ pc[t] = "a_set_held"
    /\ op[t] = "update"
    /\ ~probe_success[t]
    /\ previous[t] = Unknown
    /\ states[button_name[t]] = Off

\* C14: the store never evicts: the entries are exactly the names written
\* since the last clear_all, each with its last written value (Unknown
\* included), button_count is their number, and clear_all removes them all.
C14_NeverEvicts ==
  /\ DOMAIN states = written
  /\ \A n \in written : states[n] = lastval[n] /\ Lookup(states, n) = lastval[n]
  /\ \A t \in Tasks :
       /\ pc[t] = "a_count_held" => count_ret[t] = Cardinality(written)
       /\ pc[t] = "a_clear_held" => DOMAIN states = {}

\* two names are counted, one of them holding a written Unknown
C14_Witness ==
  \E t \in Tasks :
    /\ pc[t] = "a_count_held"
    /\ count_ret[t] = 2
    /\ \E n \in written : lastval[n] = Unknown

(* --------------------------- threads' contract -------------------------- *)
\* the state a thread's toggles start from
ThreadOrigin(t) == IF script[t].v = SkipSet THEN PreState(t) ELSE script[t].v
\* On and Off swapped i times; Unknown stays
Flipped(s, i) ==
  IF s = Unknown THEN Unknown
  ELSE IF i % 2 = 0 THEN s
  ELSE IF s = On THEN Off ELSE On
\* no other thread is on the name of t
OwnName(t) == \A u \in Tasks \ {t} : script[u] = NoScript \/ button_name[u] # button_name[t]
Started(t) == script[t] # NoScript

\* C12: toggle_state maps On to Off and Off to On and leaves Unknown fixed:
\* with no other writer on the name, the i-th toggle of a thread returns the
\* original state swapped i times (so two toggles restore a known state), any
\* number of toggles of an Unknown or never written name return Unknown, and
\* get_state afterwards reads the state the last toggle returned.
C12_ToggleMapping ==
  \A t \in Tasks :
    (Started(t) /\ ~touched[t]) =>
      /\ \A i \in 1..Len(rets[t]) : rets[t][i] = Flipped(ThreadOrigin(t), i)
      /\ Len(rets[t]) >= 2 => rets[t][2] = ThreadOrigin(t)
      /\ ThreadOrigin(t) = Unknown =>
           /\ \A i \in 1..Len(rets[t]) : rets[t][i] = Unknown
           /\ pc[t] = "th_done" => ret[t] = Unknown
      /\ pc[t] = "th_done" => ret[t] = Flipped(ThreadOrigin(t), script[t].k)

\* a thread toggled a never written name twice and read it; another thread
\* toggled a known state twice
C12_Witness ==
  \E t, u \in Tasks :
    /\ pc[t] = "th_done" /\ ~touched[t]
    /\ script[t].v = SkipSet /\ pre[t] = "absent"
    /\ rets[t] = <<Unknown, Unknown>> /\ ret[t] = Unknown
    /\ pc[u] = "th_done" /\ ~touched[u]
    /\ script[u].v = On /\ rets[u] = <<Off, On>> /\ ret[u] = On

\* C15: threads on different names do not interfere: a thread that runs
\* set_state(n, On); toggle_state(n); get_state(n) on a name no other thread
\* uses gets Off from the toggle and reads Off, whatever the others do; when
\* every thread wrote its own name, the final button_count is the number of
\* threads.
C15_DistinctNames ==
  /\ \A t \in Tasks :
       (Started(t) /\ OwnName(t)) =>
         /\ ~touched[t]
         /\ (script[t].v = On /\ script[t].k = 1) =>
              /\ Len(rets[t]) = 1 => rets[t][1] = Off
              /\ (pc[t] = "a_get_held" /\ op[t] = "get") => current_state[t] = Off
              /\ pc[t] = "th_done" => ret[t] = Off
         /\ (pc[t] = "a_get_held" /\ script[t].v # SkipSet) =>
              current_state[t] = Flipped(script[t].v, Len(rets[t]))
  /\ ( /\ main_count # NoCount
       /\ \A t \in Tasks : OwnName(t) /\ (script[t].v # SkipSet \/ script[t].k > 0) )
     => main_count = Cardinality(Tasks)

\* both threads ran set(On); toggle; get on their own names, and the main
\* thread counted
C15_Witness ==
  /\ main_count = Cardinality(Tasks)
  /\ \A t \in Tasks :
       /\ pc[t] = "th_done" /\ OwnName(t)
       /\ script[t] = [v |-> On, k |-> 1]
       /\ rets[t] = <<Off>> /\ ret[t] = Off

(* --------------------------- probes' contract --------------------------- *)
ByOutput == arm = "output"
WithConfig == probe_fn = "run_with_config"
FailureMatched == \E i \in config.failure_indicators : Contains(stdout, i)
SuccessMatched == \E i \in config.success_indicators : Contains(stdout, i)

\* C16: in execute_probe_command_with_config the failure indicators win: when
\* stdout contains a failure indicator the result is a failure (success is
\* false, is_success does not hold), also when a success indicator matches as
\* well, and for every exit status.
C16_FailureIndicatorsWin ==
  (ByOutput /\ WithConfig /\ FailureMatched) =>
    /\ ~probe_out.success
    /\ ~is_success(probe_out)
    /\ probe_out.exit_code = status

\* both kinds of indicator match the output of a child that exited 0
C16_Witness ==
  /\ ByOutput /\ WithConfig
  /\ FailureMatched /\ SuccessMatched
  /\ status = Some(0)
  /\ ~is_success(probe_out)

\* C17 as stated: when stdout contains a success indicator and no failure
\* indicator, is_success holds for every exit code.
C17_Original ==
  (ByOutput /\ WithConfig /\ SuccessMatched /\ ~FailureMatched) => is_success(probe_out)

\* C18 as stated: when no indicator matches, an stdout that is empty after
\* trimming is classified by empty_stdout_is_success for every exit code, and a
\* non-empty stdout by the exit code.
C18_Original ==
  (ByOutput /\ WithConfig /\ ~SuccessMatched /\ ~FailureMatched) =>
    IF Trim(stdout) = <<>>
    THEN is_success(probe_out) = config.empty_stdout_is_success
    ELSE is_success(probe_out) = (status = Some(0))

\* C19: when the child has not finished within timeout_ms the call returns one
\* result, an execution error (success false, no exit code, is_execution_error,
\* not is_command_failure) whose stderr names config.timeout_ms; the child was
\* still running when the call returned, and nothing was spawned again.
C19_Timeout ==
  arm = "timeout" =>
    /\ ~probe_out.success
    /\ probe_out.exit_code = None
    /\ is_execution_error(probe_out)
    /\ ~is_command_failure(probe_out)
    /\ ~is_success(probe_out)
    /\ probe_out.stderr = "Command timed out after " \o ToString(config.timeout_ms) \o "ms"
    /\ probe_out.stdout = <<>>
    /\ childAtReturn = "running"
    /\ nResults = 1
    /\ nSpawns = 1

\* a call with the short timeout returned, and its child exited afterwards
C19_Witness ==
  /\ arm = "timeout"
  /\ config.timeout_ms = ShortTimeoutMs
  /\ probe_pc = "returned"
  /\ child = "exited"
  /\ is_execution_error(probe_out)

\* C20: execute_probe_command tells three outcomes apart: exit 0 is is_success
\* with exit code 0, a non-zero exit is is_command_failure with that exit code,
\* a command that cannot be spawned is is_execution_error with no exit code and
\* the spawn error's text in stderr.
C20_RunOutcomes ==
  probe_fn = "run" =>
    /\ (ByOutput /\ status = Some(0)) =>
         /\ is_success(probe_out)
         /\ probe_out.exit_code = Some(0)
    /\ (ByOutput /\ status \notin {None, Some(0)}) =>
         /\ is_command_failure(probe_out)
         /\ ~is_execution_error(probe_out)
         /\ ~is_success(probe_out)
         /\ probe_out.exit_code = status
    /\ arm = "spawn_error" =>
         /\ is_execution_error(probe_out)
         /\ ~is_command_failure(probe_out)
         /\ probe_out.exit_code = None
         /\ probe_out.stderr = "Command execution failed: " \o spawn_error
    /\ ByOutput => (probe_out.stdout = stdout /\ probe_out.stderr = stderr)

\* a command that ran and exited 1
C20_Witness ==
  /\ probe_fn = "run"
  /\ ByOutput
  /\ status = Some(1)
  /\ is_command_failure(probe_out)
  /\ probe_out.exit_code = Some(1)

(* ------------------- the action command's failures ---------------------- *)
\* C23: an action command ended by a signal (no exit code) is reported by
\* execute_command_with_output as exit code -1, and the press is a failed
\* press: success is false, exit_code is -1, new_state is the current state and
\* the store is not written after step 1.
C23_SignalIsFailure ==
  \A t \in Tasks :
    (runner[t] = "exited" /\ action_status[t] = None) =>
      /\ exit_code[t] = Some(-1)
      /\ Done(t)
      /\ ~result[t].success
      /\ result[t].exit_code = Some(-1)
      /\ result[t].new_state = current_state[t]
      /\ result[t].error_message # None
      /\ nWrites[t] = Step1Writes(t)
      /\ nProbe[t] = Step1Writes(t)
      /\ ~touched[t] =>
           IF HasProbe(t) THEN MyEntry(t) = current_state[t]
                          ELSE MyEntry(t) = pre[t]

\* a press on a stored On whose action was killed: the store still reads On
C23_Witness ==
  \E t \in Tasks :
    /\ Done(t) /\ runner[t] = "exited" /\ action_status[t] = None
    /\ ~HasProbe(t) /\ ~touched[t]
    /\ pre[t] = On /\ expected_new_state[t] = Off /\ MyEntry(t) = On
    /\ result[t].exit_code = Some(-1)

\* C24: when the action command cannot be spawned the press returns a failure
\* with no exit code, empty stdout and stderr, an error message, and new_state
\* equal to the current state of step 1; the store is not written after step 1,
\* no verification probe runs, the command is tried once, and the press ends
\* with a result.
C24_SpawnFailure ==
  \A t \in Tasks :
    runner[t] = "spawn_failed" =>
      /\ Done(t)
      /\ result[t] # NoResult
      /\ ~result[t].success
      /\ result[t].exit_code = None
      /\ result[t].stdout = ""
      /\ result[t].stderr = ""
      /\ result[t].error_message # None
      /\ Len(result[t].error_message[1]) > 0
      /\ result[t].new_state = current_state[t]
      /\ (~HasProbe(t) /\ ~touched[t]) => result[t].new_state = PreState(t)
      /\ nWrites[t] = Step1Writes(t)
      /\ nProbe[t] = Step1Writes(t)
      /\ verify_probe[t] = NoProbeResult
      /\ nAction[t] = 1
      /\ proc[t] = NoneStr
      /\ ~touched[t] =>
           IF HasProbe(t) THEN MyEntry(t) = current_state[t]
                          ELSE MyEntry(t) = pre[t]

\* a press with a probe whose action command could not be spawned
C24_Witness ==
  \E t \in Tasks :
    /\ Done(t) /\ runner[t] = "spawn_failed" /\ HasProbe(t)
    /\ nProbe[t] = 1 /\ nAction[t] = 1
    /\ result[t].stdout = "" /\ result[t].exit_code = None

(* ------------------------ the runner's contract ------------------------- *)
\* the lines of a pipe as one text, a newline between two lines
RECURSIVE JoinLines(_)
JoinLines(ls) ==
  IF Len(ls) <= 1 THEN ls
  ELSE <<Head(ls), Newline>> \o JoinLines(Tail(ls))
RunReturnedOk == run_pc = "returned" /\ run_result.ok

\* C21 as stated: execute_command_with_output returns its result only after
\* the child has exited and both drain tasks have completed, and the returned
\* stdout and stderr hold every line the child wrote to the pipes.
C21_Original ==
  RunReturnedOk =>
    /\ cmd_child = "exited"
    /\ \A p \in Streams : drain_done[p]
    /\ run_result.stdout = JoinLines(wrote["out"])
    /\ run_result.stderr = JoinLines(wrote["err"])

\* C22: no pipe-full deadlock: a child that writes any lines to stdout and
\* stderr, in any order, through bounded pipes and then exits is never blocked
\* forever on a write, and execute_command_with_output eventually returns.
C22_NoPipeDeadlock ==
  /\ (cmd_child = "running") ~> (cmd_child = "exited")
  /\ (run_pc = "waiting") ~> (run_pc = "returned")

\* both pipes are full and the child is blocked in a further write
C22_Witness ==
  /\ cmd_child = "running"
  /\ pending # NoWrite
  /\ \A p \in Streams : Len(pipe[p]) = PipeCap
  /\ run_pc = "waiting"

(* --------------------- the Command button's contract -------------------- *)
JobFailed(i) == job[i] \in {"spawn_failed", "exited_nonzero", "wait_failed"}

\* C25: a Command button press is dispatch-and-forget: the handler never
\* returns an error, also when the command failed to spawn or exited non-zero
\* (that is only logged), and it returns without waiting for the command; the
\* next press starts its command whatever the earlier commands are doing.
C25_DispatchAndForget ==
  /\ Len(job) = Len(handler)
  /\ \A i \in PressIds :
       /\ handler[i] \in {"pending", "Ok"}
       /\ job[i] = "spawn_failed" => <<i, "error">> \in log
       /\ job[i] = "exited_nonzero" => <<i, "warn">> \in log
       /\ (JobFailed(i) /\ handler[i] # "pending") => handler[i] = "Ok"
  /\ [][ /\ \A i \in PressIds :
              (handler[i] = "pending" /\ handler'[i] # "pending") =>
                 (handler'[i] = "Ok" /\ job' = job)
         /\ Len(handler') > Len(handler) => job'[Len(job')] = "spawned"
       ]_vars

\* two commands run at once and both handlers have returned Ok
C25_Witness ==
  /\ Len(job) = 2
  /\ job[1] = "running" /\ job[2] = "running"
  /\ handler[1] = "Ok" /\ handler[2] = "Ok"

(* --------------------------- walking the menus -------------------------- *)
Positions == (0..(Cols - 1)) \X (0..(Rows - 1))
\* the view the device shows for the displayed node
Shown == create_view_from_menu(displayed)
Pressable(pos, kind) ==
  /\ Len(nav_log.trace) < MaxNavPresses
  /\ Shown.ok
  /\ pos \in DOMAIN Shown.cells
  /\ Shown.cells[pos].kind = kind

\* a Command cell is pressed: the node on display stays
NavClick(pos) ==
  /\ Pressable(pos, "click")
  /\ nav_log' = [nav_log EXCEPT !.trace = Append(@, Shown.cells[pos].name)]
  /\ UNCHANGED <<shown, displayed, path, menu, has_parent, view, handler, job, log>>
  /\ UNCHANGED <<storeVars, pc, button_name, current_state, touched, pressVars,
                 toggleVars, apiVars, probeVars, runVars>>

\* a Menu cell is pressed: the navigation's plugin becomes the node on display
NavDescend(pos) ==
  /\ Pressable(pos, "nav")
  /\ Shown.cells[pos].decl > 0
  /\ displayed' = Shown.cells[pos].target[1]
  /\ path' = Append(path, Shown.cells[pos].decl)
  /\ nav_log' = [stack |-> Append(nav_log.stack, displayed),
                 trace |-> Append(nav_log.trace, Shown.cells[pos].name)]
  /\ UNCHANGED <<shown, menu, has_parent, view, handler, job, log>>
  /\ UNCHANGED <<storeVars, pc, button_name, current_state, touched, pressVars,
                 toggleVars, apiVars, probeVars, runVars>>

\* the automatic Back is pressed: the stored parent becomes the node on display
NavBack(pos) ==
  /\ Pressable(pos, "nav")
  /\ Shown.cells[pos].decl = 0
  /\ displayed' = Shown.cells[pos].target[1]
  /\ path' = SubSeq(path, 1, Len(path) - 1)
  /\ nav_log' = [stack |-> SubSeq(nav_log.stack, 1, Len(nav_log.stack) - 1),
                 trace |-> Append(nav_log.trace, Shown.cells[pos].name)]
  /\ UNCHANGED <<shown, menu, has_parent, view, handler, job, log>>
  /\ UNCHANGED <<storeVars, pc, button_name, current_state, touched, pressVars,
                 toggleVars, apiVars, probeVars, runVars>>

NextNav ==
  \/ \E pos \in Positions : NavClick(pos)
  \/ \E pos \in Positions : NavDescend(pos)
  \/ \E pos \in Positions : NavBack(pos)

SpecNav == Init /\ [][NextNav]_vars

(* ---- properties of the rendered grid ---- *)
CellIndex(pos) == pos[2] * Cols + pos[1]
DeclaredCells == {pos \in DOMAIN view.cells : view.cells[pos].decl > 0}
NonBackBefore(i) == Cardinality({j \in 1..(i - 1) : menu[j].kind # "Back"})
BackFree(n) == \A j \in 1..n : j <= Len(menu) => menu[j].kind # "Back"

\* C26: a rendered node with a parent has, whatever buttons it declares, the
\* automatic Back bound to that parent in cell (column 4, row 2); a rendered
\* node without a parent has no cell that ascends.
C26_BackCellIffParent ==
  view.rendered =>
    /\ has_parent =>
         /\ view.ok
         /\ <<BackCol, BackRow>> \in DOMAIN view.cells
         /\ view.cells[<<BackCol, BackRow>>] = NavCell(0, "Back", WideNode.parent[1])
    /\ ~has_parent =>
         \A pos \in DOMAIN view.cells : view.cells[pos].decl > 0
C26_Witness ==
  /\ view.rendered
  /\ has_parent
  /\ Len(menu) = MaxButtons
  /\ Special(menu) = MaxSpecial
  /\ view.cells[<<BackCol, BackRow>>].name = "Back"

\* C27 (as stated): a rendered root menu whose first 15 declared buttons are
\* all non-Back shows all 15, the 15th in the bottom-right cell.
C27_Original ==
  (view.rendered /\ ~has_parent /\ Len(menu) >= Rows * Cols /\ BackFree(Rows * Cols)) =>
    /\ <<BackCol, BackRow>> \in DOMAIN view.cells
    /\ view.cells[<<BackCol, BackRow>>].decl = Rows * Cols
    /\ Cardinality(DeclaredCells) = Rows * Cols

\* C28 (as stated): a declared Back takes no grid position, the k-th non-Back
\* declared button (from 0) that is rendered sits at row-major cell index k.
C28_Original ==
  view.rendered =>
    \A pos \in DeclaredCells :
      CellIndex(pos) = NonBackBefore(view.cells[pos].decl)

\* C29: rendering a node with a parent succeeds with one view; the declared
\* buttons shown are in declaration order along the row-major cell order, all
\* in the 14 cells before the reserved one; every non-Back button among the
\* first 14 declared is shown, no button declared after the 14th is, and a
\* menu with no Back among them has its k-th button in cell k.
C29_FirstFourteenInOrder ==
  (view.rendered /\ has_parent) =>
    /\ view.ok
    /\ Cardinality(DeclaredCells) <= Rows * Cols - 1
    /\ \A pos \in DeclaredCells :
         /\ CellIndex(pos) < ReservedIndex
         /\ view.cells[pos].decl <= ReservedIndex
         /\ view.cells[pos].name = menu[view.cells[pos].decl].name
    /\ \A p \in DeclaredCells : \A q \in DeclaredCells :
         CellIndex(p) < CellIndex(q) <=> view.cells[p].decl < view.cells[q].decl
    /\ \A i \in 1..Len(menu) :
         (i <= ReservedIndex /\ menu[i].kind # "Back") =>
           \E pos \in DeclaredCells : view.cells[pos].decl = i
    /\ BackFree(ReservedIndex) =>
         \A pos \in DeclaredCells : CellIndex(pos) = view.cells[pos].decl - 1
C29_Witness ==
  /\ view.rendered
  /\ has_parent
  /\ view.ok
  /\ Len(menu) = MaxButtons
  /\ BackFree(MaxButtons)
  /\ Cardinality(DeclaredCells) = Rows * Cols - 1
  /\ view.cells[<<3, 2>>].decl = ReservedIndex

(* ---- properties of the walk ---- *)
\* the node a path of Menu buttons reaches in the configured tree
RECURSIVE NodeAt(_)
NodeAt(p) ==
  IF p = <<>> THEN [menu |-> ConfigMenu, parent |-> None]
  ELSE LET up == NodeAt(SubSeq(p, 1, Len(p) - 1))
           b == up.menu.buttons[p[Len(p)]]
       IN [menu |-> [name |-> b.name, buttons |-> b.buttons], parent |-> Some(up)]
BackOffered(node) ==
  \E pos \in DOMAIN create_view_from_menu(node).cells :
    create_view_from_menu(node).cells[pos].name = "Back"

\* C30: after any presses from the root the node on display is the node its
\* path reaches in the menu tree, parent chain included; every node left by a
\* descend is the one a Back returns to, so as many Backs as descends lead to
\* the root, and the root alone offers no Back; each Back press displays
\* exactly the node that was on display before the matching descend.
C30_BackRestoresContext ==
  /\ []( /\ displayed = NodeAt(path)
         /\ Len(nav_log.stack) = Len(path)
         /\ \A k \in 1..Len(path) : nav_log.stack[k] = NodeAt(SubSeq(path, 1, k - 1))
         /\ (path = <<>>) <=> (displayed.parent = None)
         /\ (path = <<>>) <=> ~BackOffered(displayed) )
  /\ [][ (\E pos \in Positions : NavBack(pos)) =>
           displayed' = nav_log.stack[Len(nav_log.stack)] ]_vars
C30_Witness ==
  /\ nav_log.trace = <<"sub", "deep", "Back", "Back">>
  /\ displayed = RootNode

\* the number of ancestors a node carries
RECURSIVE ChainLength(_)
ChainLength(node) == IF node.parent = None THEN 0 ELSE 1 + ChainLength(node.parent[1])

\* C31: a descend into a Menu button displays a node whose menu is the
\* pressed button's name and buttons and whose parent is the node left, equal
\* to it in menu, buttons and whole parent chain (the node left still renders
\* the same view); a node at depth d carries a chain of d parents.
C31_DescendCopiesChain ==
  /\ [](ChainLength(displayed) = Len(path))
  /\ [][ \A pos \in Positions : NavDescend(pos) =>
           LET b == displayed.menu.buttons[Shown.cells[pos].decl]
           IN /\ b.kind = "Menu"
              /\ displayed'.menu = [name |-> b.name, buttons |-> b.buttons]
              /\ displayed'.parent = Some(displayed)
              /\ create_view_from_menu(displayed'.parent[1]) = Shown
              /\ ChainLength(displayed') = ChainLength(displayed) + 1 ]_vars
C31_Witness ==
  /\ nav_log.trace = <<"sub", "deep">>
  /\ ChainLength(displayed) = 2
  /\ displayed.parent[1].parent[1] = RootNode

(* ---- properties of labels and icons ---- *)
\* the glyph that follows the name of a Toggle for an entry of the store
StateGlyph(e) == CASE e = On -> "●" [] e = Off -> "○" [] OTHER -> "?"
RenderedButton == menu[1]
DefaultGlyph == <<"filled", "TERMINAL">>

\* C32 (as stated): a Toggle button declared in a menu has a cell of its own
\* in the rendered grid.
C32_Original ==
  (view.rendered /\ menu # <<>> /\ RenderedButton.kind = "Toggle") =>
    \E pos \in DOMAIN view.cells : view.cells[pos].decl = 1

\* C33: at every render the label of a Toggle is its name, a space and the
\* glyph of the store's entry for that name alone (filled circle for On, empty
\* circle for Off, '?' for Unknown and for a name never written); the label of
\* a Command, Menu or Back is its bare name whatever the store holds.
C33_LabelFromStore ==
  [][ IconRender =>
        shown'.label =
          IF RenderedButton.kind = "Toggle"
          THEN RenderedButton.name \o " " \o StateGlyph(Entry(states, RenderedButton.name))
          ELSE RenderedButton.name ]_vars
C33_Witness ==
  /\ shown.rendered
  /\ RenderedButton.kind = "Toggle"
  /\ shown.label = "WiFi ○"
  /\ Entry(states, "WiFi") = Off
  /\ Entry(states, "other") = On

\* C34: at every render the icon of a Toggle is a glyph, never absent; in
\* state On it is that of on_icon if declared, else of icon if declared, else
\* what the resolver gives for toggle_on; in state Off the same with off_icon
\* and toggle_off; in state Unknown (or never written) that of icon if
\* declared, else the help glyph, whatever on_icon and off_icon are.
C34_IconFromStore ==
  [][ (IconRender /\ RenderedButton.kind = "Toggle") =>
        LET b == RenderedButton
            e == Entry(states, b.name)
            own == CASE e = On -> b.on_icon [] e = Off -> b.off_icon [] OTHER -> None
        IN /\ shown'.icon # None
           /\ Len(shown'.icon[1]) = 2
           /\ own # None => shown'.icon = resolve_icon(own)
           /\ (own = None /\ b.icon # None) => shown'.icon = resolve_icon(b.icon)
           /\ (own = None /\ b.icon = None) =>
                shown'.icon = IF e \in {On, Off} THEN Some(DefaultGlyph)
                              ELSE Some(<<"filled", "HELP">>)
           /\ e \notin {On, Off} =>
                shown'.icon = resolve_toggle_icon(ToggleButton(b.name, None, None, b.icon),
                                                  states) ]_vars
C34_Witness ==
  /\ shown.rendered
  /\ RenderedButton.kind = "Toggle"
  /\ RenderedButton.on_icon = Some(<<"wifi">>)
  /\ RenderedButton.icon = Some(<<"outlined", "home">>)
  /\ Entry(states, "WiFi") = Unknown
  /\ shown.icon = Some(<<"outlined", "HOME">>)

\* C35: when a press has returned and no other writer hit the button's entry
\* since it began, the state the store gives for the button is the new_state
\* of the result, whether the press succeeded or failed, in both modes, with
\* and without a probe.
C35_StoreMatchesResult ==
  \A t \in Tasks :
    (Done(t) /\ ~touched[t]) => MyState(t) = result[t].new_state
C35_Witness ==
  /\ \E t \in Tasks :
       /\ Done(t) /\ ~touched[t] /\ result[t].success /\ HasProbe(t)
       /\ mode[t] = "Separate" /\ result[t].new_state = Off /\ MyEntry(t) = Off
  /\ \E t \in Tasks :
       /\ Done(t) /\ ~touched[t] /\ ~result[t].success /\ ~HasProbe(t)
       /\ MyEntry(t) = "absent" /\ result[t].new_state = Unknown

\* the number of the three classes a ProbeResult is in
Classes(r) ==
  (IF is_success(r) THEN 1 ELSE 0) + (IF is_command_failure(r) THEN 1 ELSE 0)
    + (IF is_execution_error(r) THEN 1 ELSE 0)

\* C36 (as stated): every ProbeResult that run or run_with_config has returned
\* is in exactly one of is_success, is_command_failure and is_execution_error.
C36_Original == probe_pc = "returned" => Classes(probe_out) = 1

\* the state two presses of a probe-less button, run one after the other from
\* state s with both actions exiting 0, leave in the store
AfterTwoPresses(m, s) == SelectAction(m, SelectAction(m, s).expected).expected

\* C37 (as stated): two presses of the same probe-less toggle that both began
\* before either wrote (they read the same entry), both actions exiting 0,
\* leave the store as two presses one after the other would.
C37_Original ==
  \A t \in Tasks : \A u \in Tasks \ {t} :
    ( /\ Done(t) /\ Done(u)
      /\ button_name[t] = button_name[u]
      /\ ~HasProbe(t)
      /\ ZeroExit(t) /\ ZeroExit(u)
      /\ pre[t] = pre[u] )
    => MyState(t) = AfterTwoPresses(mode[t], PreState(t))

\* C38: in a rendered grid every set_button / set_navigation call went to a
\* cell of its own: the cells of the view are as many as the calls made, for
\* every list of declared buttons and for nodes with and without a parent; so
\* no two declared buttons share a cell and the automatic Back replaces none.
C38_NoCellSetTwice ==
  view.rendered =>
    /\ view.ok
    /\ Cardinality(DOMAIN view.cells) = view.sets
    /\ has_parent => view.sets = Cardinality(DeclaredCells) + 1
    /\ ~has_parent => view.sets = Cardinality(DeclaredCells)
C38_Witness ==
  /\ view.rendered
  /\ has_parent
  /\ Len(menu) = MaxButtons
  /\ menu[2].kind = "Back"
  /\ menu[ReservedIndex + 1].kind = "Menu"
  /\ view.sets = Rows * Cols - 1

\* C39: every press that has begun returns a result, given that the processes
\* it spawns exit and its steps are scheduled; and whoever holds the store's
\* lock is not waiting for a process, so a press never waits on a lock behind
\* a process.
C39_PressReturns ==
  /\ \A t \in Tasks : (pc[t] \notin {"idle", "done"}) ~> (Done(t) /\ result[t] # NoResult)
  /\ [](\A t \in Tasks : (lockW = t \/ t \in lockR) => proc[t] = NoneStr)
C39_Witness ==
  \E t \in Tasks : \E u \in Tasks \ {t} :
    /\ Done(t) /\ HasProbe(t) /\ result[t].success /\ nProbe[t] = 2 /\ nWrites[t] = 3
    /\ Done(u) /\ ~HasProbe(u) /\ result[u].success /\ nWrites[u] = 1
====
